---- MODULE Spec2Model ----
(***************************************************************************)
(* State-machine model of the HR recruitment tracker (src/app.py).         *)
(*                                                                         *)
(* The workbook is a set of sheets; every sheet is a sequence of rows and  *)
(* every handler reads whole sheets, changes its copy and writes the whole *)
(* sheet back (_excel_read / _excel_write).  One action models one request *)
(* handler from its first line to its redirect.                            *)
(*                                                                         *)
(* Strings whose characters matter to the code (nationality, location,     *)
(* meeting link, dates, amounts) are sequences of one-character strings;   *)
(* strings that are only compared for equality (ids, statuses, messages)   *)
(* are TLA+ strings.  Columns that no handler ever reads back or branches  *)
(* on (Position, Interviewer, ICS Path, Timestamp, Email, Created By,      *)
(* Last Updated) are not carried in the rows.                              *)
(***************************************************************************)
EXTENDS Integers, Sequences, FiniteSets, TLC

VARIABLES
    Screening_Form,   \* sheet "Screening_Form": sequence of screening rows
    Candidates,       \* sheet "Candidates": sequence of candidate rows
    Interviews,       \* sheet "Interviews": sequence of interview rows
    Offer_Details,    \* sheet "Offer_Details": sequence of offer rows
    Shortlist_Request, \* sheet "Shortlist_Request": sequence of checklist rows
    dirs,             \* candidate folders that exist under ATTACH_DIR
    ev,               \* flash category of the last handled request
    calc              \* input and result of the last pure computation

vars == <<Screening_Form, Candidates, Interviews, Offer_Details, Shortlist_Request,
          dirs, ev, calc>>
sheets == <<Screening_Form, Candidates, Interviews, Offer_Details, Shortlist_Request>>

----------------------------------------------------------------------------
(* Bounds of the model *)

MaxRows == 2          \* rows the Interviews sheet may hold

----------------------------------------------------------------------------
(* Text helpers: str.strip, str.lower, the `in` substring test *)

IsSpace(c) == c \in {" ", "\t", "\n"}

RECURSIVE LStrip(_)
LStrip(s) == IF s # <<>> /\ IsSpace(Head(s)) THEN LStrip(Tail(s)) ELSE s

RECURSIVE RStrip(_)
RStrip(s) == IF s # <<>> /\ IsSpace(s[Len(s)])
             THEN RStrip(SubSeq(s, 1, Len(s) - 1)) ELSE s

Strip(s) == RStrip(LStrip(s))

UpperChars == <<"A","B","C","D","E","F","G","H","I","J","K","L","M",
                "N","O","P","Q","R","S","T","U","V","W","X","Y","Z">>
LowerChars == <<"a","b","c","d","e","f","g","h","i","j","k","l","m",
                "n","o","p","q","r","s","t","u","v","w","x","y","z">>

UpperSet == {UpperChars[i] : i \in 1..26}
LowerSet == {LowerChars[i] : i \in 1..26}

LowerChar(c) == IF c \in UpperSet
                THEN LowerChars[CHOOSE i \in 1..26 : UpperChars[i] = c]
                ELSE c

ToLower(s) == [i \in 1..Len(s) |-> LowerChar(s[i])]

Contains(s, sub) ==
    \E i \in 0..(Len(s) - Len(sub)) : SubSeq(s, i + 1, i + Len(sub)) = sub

----------------------------------------------------------------------------
(* Users and roles *)

ROLES == {"admin", "hr", "requestor"}

\* who sends a request: a signed-in user's role, or "anon" when the session
\* holds no user
Callers == ROLES \cup {"anon"}

\* flash(msg, category): the state keeps the category of the last flash,
\* "none" when the handler redirected without one
Flash(op, cat, msg) == cat

\* require_role(*roles): TRUE when the caller may proceed
require_role(caller, roles) == caller \in roles

\* the message require_role flashes when it returns False
require_role_msg(caller) ==
    IF caller = "anon" THEN "Please sign in." ELSE "Access denied."

----------------------------------------------------------------------------
(* Tabular store adapter *)

\* _excel_write: the sheet after the call; ok is the returned flag
_excel_write(ok, old, new) == IF ok THEN new ELSE old

\* df[df["Candidate ID"] != cid]
DropCid(rows, cid) == SelectSeq(rows, LAMBDA r : r.cid # cid)

\* a drop that takes the row before position idx
DropAt_RowBefore(rows, idx) ==
    SubSeq(rows, 1, idx - 1) \o SubSeq(rows, idx + 1, Len(rows))

\* iv_df.drop(iv_df.index[idx]) for a 0-based idx
DropAt(rows, idx) ==
    SubSeq(rows, 1, idx) \o SubSeq(rows, idx + 2, Len(rows))

\* mask.any() for mask = (df["Candidate ID"] == cid)
HasCid(rows, cid) == \E i \in 1..Len(rows) : rows[i].cid = cid

\* iv.index[mask][0] as a 1-based position
FirstOfCid(rows, cid) ==
    CHOOSE i \in 1..Len(rows) :
        /\ rows[i].cid = cid
        /\ \A j \in 1..(i - 1) : rows[j].cid # cid

----------------------------------------------------------------------------
(* Numbers in text: datetime.strptime(..., "%Y-%m-%d %H:%M") *)

Digits == <<"0","1","2","3","4","5","6","7","8","9">>

DigitSet == {Digits[i] : i \in 1..10}

IsDigit(c) == c \in DigitSet

DigitVal(c) == (CHOOSE i \in 1..10 : Digits[i] = c) - 1

IsDigits(s) == s # <<>> /\ \A i \in 1..Len(s) : IsDigit(s[i])

RECURSIVE NumVal(_)
NumVal(s) == IF s = <<>> THEN 0
             ELSE 10 * NumVal(SubSeq(s, 1, Len(s) - 1)) + DigitVal(s[Len(s)])

\* s.split(sep); `from` is the position the scan has reached, `cur` the piece so far
RECURSIVE SplitFrom(_, _, _, _)
SplitFrom(s, sep, from, cur) ==
    IF from > Len(s) THEN <<cur>>
    ELSE IF s[from] = sep THEN <<cur>> \o SplitFrom(s, sep, from + 1, <<>>)
    ELSE SplitFrom(s, sep, from + 1, Append(cur, s[from]))

Split(s, sep) == SplitFrom(s, sep, 1, <<>>)

IsLeap(y) == (y % 4 = 0 /\ y % 100 # 0) \/ y % 400 = 0

DaysIn(y, m) == IF m = 2 THEN (IF IsLeap(y) THEN 29 ELSE 28)
                ELSE IF m \in {4, 6, 9, 11} THEN 30 ELSE 31

\* one or two digits with a value in lo..hi (%m, %d, %H, %M)
Field12(s, lo, hi) ==
    /\ Len(s) \in {1, 2}
    /\ IsDigits(s)
    /\ LET n == NumVal(s) IN n >= lo /\ n <= hi

\* TRUE when strptime(f"{d} {t}", "%Y-%m-%d %H:%M") returns a datetime
strptime_ok(d, t) ==
    LET dp == Split(d, "-")
        tp == Split(t, ":")
    IN  /\ Len(dp) = 3 /\ Len(tp) = 2
        /\ IsDigits(dp[1]) /\ Len(dp[1]) = 4
        /\ Field12(dp[2], 1, 12)
        /\ Field12(dp[3], 1, 31)
        /\ NumVal(dp[3]) <= DaysIn(NumVal(dp[1]), NumVal(dp[2]))
        /\ Field12(tp[1], 0, 23)
        /\ Field12(tp[2], 0, 59)

----------------------------------------------------------------------------
(* Candidate folders *)

IsAlnum(c) == IsDigit(c) \/ c \in UpperSet \/ c \in LowerSet

\* str.replace(" ", "_")
SpacesToUnderscores(s) == [i \in 1..Len(s) |-> IF s[i] = " " THEN "_" ELSE s[i]]

\* a folder name that lets the dot of a name through
candidate_root_KeepsDots(name, cid) ==
    [safe |-> SpacesToUnderscores(Strip(SelectSeq(name,
                  LAMBDA c : IsAlnum(c) \/ c \in {" ", "_", "-", "."}))),
     cid  |-> cid]

\* candidate_root(name, cid): the folder f"{safe_name}_{cid}" under ATTACH_DIR
candidate_root(name, cid) ==
    [safe |-> SpacesToUnderscores(Strip(SelectSeq(name,
                  LAMBDA c : IsAlnum(c) \/ c \in {" ", "_", "-"}))),
     cid  |-> cid]

----------------------------------------------------------------------------
(* Interviews *)

OnsiteAddress == <<"m","a","p","s">>   \* "https://maps.app.goo.gl/WLVM69QkbntDG2Tq7"

NoPick == [name |-> <<>>, cid |-> ""]  \* a pick that is empty or has no "["

FirstRound  == {"First Interview", "First Interview Completed"}
SecondRound == {"Second Interview", "Second Interview Completed"}

\* new_row with the Onsite branch keeping the submitted meeting link
interviews_new_row_KeepsLink(f) ==
    [cid    |-> f.pick.cid,
     name   |-> f.pick.name,
     date   |-> Strip(f.date),
     time   |-> Strip(f.time),
     mode   |-> f.mode,
     loc    |-> IF f.mode = "Onsite" THEN OnsiteAddress ELSE Strip(f.loc),
     link   |-> Strip(f.link),
     status |-> IF f.second THEN "Second Interview" ELSE "First Interview"]

\* new_row of interviews(): the row built from the form
interviews_new_row(f) ==
    [cid    |-> f.pick.cid,
     name   |-> f.pick.name,
     date   |-> Strip(f.date),
     time   |-> Strip(f.time),
     mode   |-> f.mode,
     loc    |-> IF f.mode = "Onsite" THEN OnsiteAddress ELSE Strip(f.loc),
     link   |-> IF f.mode = "Onsite" THEN <<>> ELSE Strip(f.link),
     status |-> IF f.second THEN "Second Interview" ELSE "First Interview"]

\* the update-or-append step without the `not is_second` test
interviews_upsert_IgnoresRound(iv, f) ==
    IF HasCid(iv, f.pick.cid)
    THEN [iv EXCEPT ![FirstOfCid(iv, f.pick.cid)] = interviews_new_row(f)]
    ELSE Append(iv, interviews_new_row(f))

\* the Interviews frame after the update-or-append step of interviews()
interviews_upsert(iv, f) ==
    IF ~f.second /\ HasCid(iv, f.pick.cid)
    THEN [iv EXCEPT ![FirstOfCid(iv, f.pick.cid)] = interviews_new_row(f)]
    ELSE Append(iv, interviews_new_row(f))

interviews_msg(iv, f) ==
    IF ~f.second /\ HasCid(iv, f.pick.cid) THEN "Interview updated."
    ELSE IF f.second THEN "Second interview scheduled." ELSE "Interview saved."

\* the status assignment without the row mask
SetStatus_EveryRow(cd, cid, status) ==
    [i \in 1..Len(cd) |-> [cd[i] EXCEPT !.status = status]]

\* cand_df.loc[m, "Status"] = status, for m = (Candidate ID == cid)
SetStatus(cd, cid, status) ==
    [i \in 1..Len(cd) |->
        IF cd[i].cid = cid THEN [cd[i] EXCEPT !.status = status] ELSE cd[i]]

\* the validation without the strptime test
interviews_invalid_NoParse(f) ==
    IF f.pick = NoPick THEN "Select a candidate."
    ELSE IF Strip(f.date) = <<>> \/ Strip(f.time) = <<>> THEN "Pick date and time."
    ELSE ""

\* the validation error of interviews() for form f, "" when the form passes
interviews_invalid(f) ==
    LET date_s == Strip(f.date)
        time_s == Strip(f.time)
    IN  IF f.pick = NoPick THEN "Select a candidate."
        ELSE IF date_s = <<>> \/ time_s = <<>> THEN "Pick date and time."
        ELSE IF ~strptime_ok(date_s, time_s) THEN "Bad date/time."
        ELSE ""

\* interviews() from the validated form on: the invite's folder, the
\* update-or-append of the row, the two sheet writes w1, w2 and the flash
interviews_save(f, w1, w2) ==
    /\ Interviews' = _excel_write(w1, Interviews, interviews_upsert(Interviews, f))
    /\ Candidates' = IF HasCid(Candidates, f.pick.cid)
                     THEN _excel_write(w2, Candidates,
                              SetStatus(Candidates, f.pick.cid, "Interview"))
                     ELSE Candidates
    /\ ev' = Flash("interviews", "success", interviews_msg(Interviews, f))
    /\ dirs' = dirs \cup {candidate_root(f.pick.name, f.pick.cid)}
    /\ UNCHANGED <<Screening_Form, Offer_Details, Shortlist_Request, calc>>

\* POST /interviews by `caller` with form f; w1, w2: outcome of the two sheet writes
interviews(caller, f, w1, w2) ==
    IF ~require_role(caller, {"admin", "hr", "requestor"})
    THEN /\ ev' = Flash("interviews", "error", require_role_msg(caller))
         /\ UNCHANGED <<sheets, dirs, calc>>
    ELSE IF caller = "requestor"
    THEN /\ ev' = Flash("interviews", "error", "Requestors cannot create interviews.")
         /\ UNCHANGED <<sheets, dirs, calc>>
    ELSE IF interviews_invalid(f) # ""
    THEN /\ ev' = Flash("interviews", "error", interviews_invalid(f))
         /\ UNCHANGED <<sheets, dirs, calc>>
    ELSE interviews_save(f, w1, w2)

\* GET /interviews/delete/<idx>
interview_delete(caller, idx, w) ==
    IF ~require_role(caller, {"admin", "hr"})
    THEN /\ ev' = Flash("interview_delete", "error", require_role_msg(caller))
         /\ UNCHANGED <<sheets, dirs, calc>>
    ELSE IF Interviews = <<>>
    THEN /\ ev' = Flash("interview_delete", "error", "No interviews to delete.")
         /\ UNCHANGED <<sheets, dirs, calc>>
    ELSE IF idx < Len(Interviews)
    THEN /\ Interviews' = _excel_write(w, Interviews, DropAt(Interviews, idx))
         /\ ev' = Flash("interview_delete", "success", "Interview deleted.")
         /\ UNCHANGED <<Screening_Form, Candidates, Offer_Details, dirs, Shortlist_Request, calc>>
    ELSE /\ ev' = Flash("interview_delete", "error", "Invalid interview index.")
         /\ UNCHANGED <<sheets, dirs, calc>>

\* iv.loc[idx, "Status"] = status for a 0-based idx
SetRowStatus(iv, idx, status) == [iv EXCEPT ![idx + 1].status = status]

\* the four routes done_first / undo_first / done_second / undo_second share
\* one shape: a guarded status flip of row idx.  None of them calls
\* require_role, so the handler never looks at the caller.
\* a flip that does not look at the row's current status
interview_flip_Unguarded(op, idx, from, to, badmsg, okmsg, w) ==
    IF Interviews = <<>> \/ idx >= Len(Interviews)
    THEN /\ ev' = Flash(op, "error", badmsg)
         /\ UNCHANGED <<sheets, dirs, calc>>
    ELSE /\ Interviews' = _excel_write(w, Interviews, SetRowStatus(Interviews, idx, to))
         /\ ev' = Flash(op, "success", okmsg)
         /\ UNCHANGED <<Screening_Form, Candidates, Offer_Details, dirs, Shortlist_Request, calc>>

interview_flip(op, idx, from, to, badmsg, okmsg, w) ==
    IF Interviews = <<>> \/ idx >= Len(Interviews)
    THEN /\ ev' = Flash(op, "error", badmsg)
         /\ UNCHANGED <<sheets, dirs, calc>>
    ELSE IF Interviews[idx + 1].status = from
    THEN /\ Interviews' = _excel_write(w, Interviews, SetRowStatus(Interviews, idx, to))
         /\ ev' = Flash(op, "success", okmsg)
         /\ UNCHANGED <<Screening_Form, Candidates, Offer_Details, dirs, Shortlist_Request, calc>>
    ELSE /\ ev' = Flash(op, "none", "")
         /\ UNCHANGED <<sheets, dirs, calc>>

\* GET /interviews/done_first/<idx>
interview_done_first(idx, w) ==
    interview_flip("interview_done_first", idx, "First Interview",
                   "First Interview Completed", "Invalid interview",
                   "First interview completed.", w)

\* GET /interviews/undo_first/<idx>
interview_undo_first(idx, w) ==
    interview_flip("interview_undo_first", idx, "First Interview Completed",
                   "First Interview", "Invalid", "Undo successful.", w)

\* GET /interviews/done_second/<idx>
interview_done_second(idx, w) ==
    interview_flip("interview_done_second", idx, "Second Interview",
                   "Second Interview Completed", "Invalid",
                   "Second interview completed.", w)

\* GET /interviews/undo_second/<idx>
interview_undo_second(idx, w) ==
    interview_flip("interview_undo_second", idx, "Second Interview Completed",
                   "Second Interview", "Invalid", "Undo successful.", w)

\* GET /interviews/request_second/<idx>: only redirects to the form
interview_request_second(idx) ==
    /\ ev' = IF Interviews = <<>> \/ idx >= Len(Interviews)
             THEN Flash("interview_request_second", "error", "Invalid")
             ELSE Flash("interview_request_second", "none", "")
    /\ UNCHANGED <<sheets, dirs, calc>>

\* the shared shape of /interviews/done/<idx> and /interviews/undo/<idx>
interview_mark(op, caller, idx, to, okmsg, w) ==
    IF ~require_role(caller, {"admin", "hr"})
    THEN /\ ev' = Flash(op, "error", require_role_msg(caller))
         /\ UNCHANGED <<sheets, dirs, calc>>
    ELSE IF Interviews = <<>> \/ idx >= Len(Interviews)
    THEN /\ ev' = Flash(op, "error", "Invalid interview.")
         /\ UNCHANGED <<sheets, dirs, calc>>
    ELSE /\ Interviews' = _excel_write(w, Interviews, SetRowStatus(Interviews, idx, to))
         /\ ev' = Flash(op, "success", okmsg)
         /\ UNCHANGED <<Screening_Form, Candidates, Offer_Details, dirs, Shortlist_Request, calc>>

\* GET /interviews/done/<idx>
interview_done(caller, idx, w) ==
    interview_mark("interview_done", caller, idx, "Second Interview",
                   "Marked as requiring a second interview.", w)

\* GET /interviews/undo/<idx>
interview_undo(caller, idx, w) ==
    interview_mark("interview_undo", caller, idx, "First Interview",
                   "Status reverted.", w)

----------------------------------------------------------------------------
(* Screening: import and save *)

\* the first IMPORT_REQUIRED column that is blank in the row, "" when none is
import_missing(row) ==
    IF Strip(row.name) = <<>> THEN "Candidate Name"
    ELSE IF Strip(row.role) = <<>> THEN "Role Interviewed For"
    ELSE ""

\* POST /screening/import of a file whose first data row is `row`
\* (file.kind tells the early exits apart); newid is what gen_candidate_id returns
screening_import(caller, file, newid, w1, w2) ==
    IF ~require_role(caller, {"admin", "hr"})
    THEN /\ ev' = Flash("screening_import", "error", require_role_msg(caller))
         /\ UNCHANGED <<sheets, dirs, calc>>
    ELSE IF file.kind # "rows"
    THEN \* no file, wrong extension, unreadable file, no data
         /\ ev' = Flash("screening_import", "error", file.kind)
         /\ UNCHANGED <<sheets, dirs, calc>>
    ELSE IF import_missing(file.row) # ""
    THEN /\ ev' = Flash("screening_import", "error", import_missing(file.row))
         /\ UNCHANGED <<sheets, dirs, calc>>
    ELSE LET name == Strip(file.row.name)
             role == Strip(file.row.role)
             srow == [cid |-> newid, name |-> name, role |-> role]
             crow == [cid |-> newid, name |-> name, role |-> role,
                      status |-> "Screening", req |-> file.row.req, comment |-> ""]
         IN  /\ Screening_Form' = _excel_write(w1, Screening_Form,
                                               Append(Screening_Form, srow))
             /\ IF ~w1
                THEN /\ ev' = Flash("screening_import", "error",
                                    "Write error (Screening_Form).")
                     /\ UNCHANGED Candidates
                ELSE /\ Candidates' = _excel_write(w2, Candidates,
                                                   Append(Candidates, crow))
                     /\ ev' = IF w2
                              THEN Flash("screening_import", "success", "Screening saved")
                              ELSE Flash("screening_import", "error",
                                         "Write error (Candidates).")
             /\ UNCHANGED <<Interviews, Offer_Details, dirs, Shortlist_Request, calc>>

\* df_c[df_c["Candidate Name"].str.strip() == cand_name].head(1): a row or none
HasName(cd, name) == \E i \in 1..Len(cd) : Strip(cd[i].name) = name

FirstOfName(cd, name) ==
    CHOOSE i \in 1..Len(cd) :
        /\ Strip(cd[i].name) = name
        /\ \A j \in 1..(i - 1) : Strip(cd[j].name) # name

\* a resolution that never looks the name up
resolve_candidate_id_NoLookup(cd, form, newid) ==
    IF form.cid # "" THEN form.cid ELSE newid

\* "Resolve candidate_id" of screening_save
resolve_candidate_id(cd, form, newid) ==
    LET name == Strip(form.name)
    IN  IF form.cid # "" THEN form.cid
        ELSE IF name # <<>> /\ HasName(cd, name) /\ cd[FirstOfName(cd, name)].cid # ""
        THEN cd[FirstOfName(cd, name)].cid
        ELSE newid

\* an upsert that leaves the Status of a matching row as it finds it
upsert_by_cid_KeepsStatus(rows, cid, vals, full) ==
    IF HasCid(rows, cid)
    THEN [i \in 1..Len(rows) |->
            IF rows[i].cid = cid
            THEN [k \in DOMAIN rows[i] |->
                    IF k \in DOMAIN vals /\ k # "status" THEN vals[k] ELSE rows[i][k]]
            ELSE rows[i]]
    ELSE Append(rows, full)

\* an upsert that never looks for a matching row
upsert_by_cid_AlwaysAppends(rows, cid, vals, full) == Append(rows, full)

\* rows of `rows` with Candidate ID = cid overwritten by the fields of `vals`
\* (df.loc[mask, k] = v for every k), or `full` appended when no row matches
upsert_by_cid(rows, cid, vals, full) ==
    IF HasCid(rows, cid)
    THEN [i \in 1..Len(rows) |->
            IF rows[i].cid = cid
            THEN [k \in DOMAIN rows[i] |->
                    IF k \in DOMAIN vals THEN vals[k] ELSE rows[i][k]]
            ELSE rows[i]]
    ELSE Append(rows, full)

\* POST /screening/save
screening_save(caller, form, newid, w1, w2) ==
    IF ~require_role(caller, {"admin", "hr"})
    THEN /\ ev' = Flash("screening_save", "error", "Access denied. Read-only.")
         /\ UNCHANGED <<sheets, dirs, calc>>
    ELSE LET name == Strip(form.name)
             role == Strip(form.role)
             cid  == resolve_candidate_id(Candidates, form, newid)
             svals == [name |-> name, role |-> role]
             cvals == [name |-> name, role |-> role, status |-> "Screening",
                       req |-> form.req]
         IN  IF name = <<>> \/ role = <<>>
             THEN /\ ev' = Flash("screening_save", "error", "Missing required fields.")
                  /\ UNCHANGED <<sheets, dirs, calc>>
             ELSE /\ dirs' = dirs \cup {candidate_root(name, cid)}
                  /\ Screening_Form' = _excel_write(w1, Screening_Form,
                         upsert_by_cid(Screening_Form, cid, svals,
                                       [cid |-> cid, name |-> name, role |-> role]))
                  /\ Candidates' = _excel_write(w2, Candidates,
                         upsert_by_cid(Candidates, cid, cvals,
                                       [cid |-> cid, name |-> name, role |-> role,
                                        status |-> "Screening", req |-> form.req,
                                        comment |-> ""]))
                  /\ ev' = Flash("screening_save", "success", "Screening saved.")
                  /\ UNCHANGED <<Interviews, Offer_Details, Shortlist_Request, calc>>

----------------------------------------------------------------------------
(* Candidates: status edit, comment, delete *)

\* cand_df.loc[m, col] = val for m = (Candidate ID == cid); col is a field name
SetField(cd, cid, col, val) ==
    [i \in 1..Len(cd) |->
        IF cd[i].cid = cid THEN [cd[i] EXCEPT ![col] = val] ELSE cd[i]]

\* POST /candidates/meta/save/<cand_id> with the Status field of the form
candidate_meta_save(caller, cid, status, w) ==
    IF ~require_role(caller, {"admin", "hr"})
    THEN /\ ev' = Flash("candidate_meta_save", "error", require_role_msg(caller))
         /\ UNCHANGED <<sheets, dirs, calc>>
    ELSE IF Candidates = <<>>
    THEN /\ ev' = Flash("candidate_meta_save", "error", "Candidates sheet empty.")
         /\ UNCHANGED <<sheets, dirs, calc>>
    ELSE IF ~HasCid(Candidates, cid)
    THEN /\ ev' = Flash("candidate_meta_save", "error", "Candidate not found.")
         /\ UNCHANGED <<sheets, dirs, calc>>
    ELSE /\ Candidates' = _excel_write(w, Candidates,
                                       SetField(Candidates, cid, "status", status))
         /\ ev' = Flash("candidate_meta_save", "success", "Candidate updated.")
         /\ UNCHANGED <<Screening_Form, Interviews, Offer_Details, Shortlist_Request,
                        dirs, calc>>

\* str(cell) of a text cell read back from the workbook: pandas reads an
\* empty cell as NaN, whose str() is "nan"
CellText(v) == IF v = "" THEN "nan" ELSE v

\* POST /candidates/comment/<cand_id> by the user `user` whose role is `caller`
candidate_comment(caller, user, cid, text, w) ==
    IF ~require_role(caller, {"requestor", "admin", "hr"})
    THEN /\ ev' = Flash("candidate_comment", "error", require_role_msg(caller))
         /\ UNCHANGED <<sheets, dirs, calc>>
    ELSE IF Candidates = <<>>
    THEN /\ ev' = Flash("candidate_comment", "error", "Candidates sheet empty.")
         /\ UNCHANGED <<sheets, dirs, calc>>
    ELSE IF ~HasCid(Candidates, cid)
    THEN /\ ev' = Flash("candidate_comment", "error", "Candidate not found.")
         /\ UNCHANGED <<sheets, dirs, calc>>
    ELSE IF /\ caller = "requestor"
            /\ CellText(Candidates[FirstOfCid(Candidates, cid)].req) # user
    THEN /\ ev' = Flash("candidate_comment", "error", "Access denied.")
         /\ UNCHANGED <<sheets, dirs, calc>>
    ELSE /\ Candidates' = _excel_write(w, Candidates,
                                       SetField(Candidates, cid, "comment", text))
         /\ ev' = Flash("candidate_comment", "success", "Request/Comment sent to HR.")
         /\ UNCHANGED <<Screening_Form, Interviews, Offer_Details, Shortlist_Request,
                        dirs, calc>>

\* one sheet of a delete: rewritten without the rows of cid unless it is empty
DeleteFrom(ok, rows, cid) ==
    IF rows = <<>> THEN rows ELSE _excel_write(ok, rows, DropCid(rows, cid))

\* shutil.rmtree of every folder whose name ends with "_" + cand_id
RemoveDirs(ds, cid) == {d \in ds : d.cid # cid}

\* GET /candidates/delete/<cand_id>; w.cd .. w.od: outcome of the five writes
candidate_delete_all(caller, cid, w) ==
    IF ~require_role(caller, {"admin", "hr"})
    THEN /\ ev' = Flash("candidate_delete_all", "error", require_role_msg(caller))
         /\ UNCHANGED <<sheets, dirs, calc>>
    ELSE /\ Candidates' = DeleteFrom(w.cd, Candidates, cid)
         /\ Screening_Form' = DeleteFrom(w.sf, Screening_Form, cid)
         /\ Shortlist_Request' = DeleteFrom(w.sl, Shortlist_Request, cid)
         /\ Interviews' = DeleteFrom(w.iv, Interviews, cid)
         /\ Offer_Details' = DeleteFrom(w.od, Offer_Details, cid)
         /\ dirs' = RemoveDirs(dirs, cid)
         /\ ev' = Flash("candidate_delete_all", "success", "Candidate deleted")
         /\ UNCHANGED calc

\* GET /screening/delete/<cand_id>
screening_delete(caller, cid, w1, w2) ==
    IF ~require_role(caller, {"admin", "hr"})
    THEN /\ ev' = Flash("screening_delete", "error", require_role_msg(caller))
         /\ UNCHANGED <<sheets, dirs, calc>>
    ELSE /\ Screening_Form' = DeleteFrom(w1, Screening_Form, cid)
         /\ Candidates' = DeleteFrom(w2, Candidates, cid)
         /\ dirs' = RemoveDirs(dirs, cid)
         /\ ev' = Flash("screening_delete", "success", "Deleted Candidate ID")
         /\ UNCHANGED <<Interviews, Offer_Details, Shortlist_Request, calc>>

----------------------------------------------------------------------------
(* Shortlist checklist *)

Yes == <<"Y","e","s">>
No == <<"N","o">>
Other == <<"O","t","h","e","r">>
YESNO == <<Yes, No, Other>>

MARITAL ==
  <<<<"S","i","n","g","l","e">>,
    <<"M","a","r","r","i","e","d">>,
    <<"D","i","v","o","r","c","e","d">>,
    <<"W","i","d","o","w","e","d">>,
    <<"O","t","h","e","r">>>>

IQAMA ==
  <<<<"V","a","l","i","d">>,
    <<"T","r","a","n","s","f","e","r","a","b","l","e">>,
    <<"E","x","p","i","r","e","d">>,
    <<"N","/","A"," ","(","S","a","u","d","i"," ","N","a","t","i","o","n","a","l",")">>,
    <<"N","/","A">>,
    <<"O","t","h","e","r">>>>

NOTICE ==
  <<<<"I","m","m","e","d","i","a","t","e">>,
    <<"1"," ","w","e","e","k">>,
    <<"2"," ","w","e","e","k","s">>,
    <<"1"," ","m","o","n","t","h">>,
    <<"2"," ","m","o","n","t","h","s">>,
    <<"3"," ","m","o","n","t","h","s">>,
    <<"O","t","h","e","r">>>>

EDUCATION ==
  <<<<"H","i","g","h"," ","S","c","h","o","o","l">>,
    <<"D","i","p","l","o","m","a">>,
    <<"B","a","c","h","e","l","o","r","'","s"," ","D","e","g","r","e","e">>,
    <<"M","a","s","t","e","r","'","s"," ","D","e","g","r","e","e">>,
    <<"P","h","D">>,
    <<"O","t","h","e","r">>>>

mapv ==
  {<<<<"i","m","m","e","d","i","a","t","e">>, <<"I","m","m","e","d","i","a","t","e">>>>,
   <<<<"1","w">>, <<"1"," ","w","e","e","k">>>>,
   <<<<"2","w">>, <<"2"," ","w","e","e","k","s">>>>,
   <<<<"1","m">>, <<"1"," ","m","o","n","t","h">>>>,
   <<<<"2","m">>, <<"2"," ","m","o","n","t","h","s">>>>,
   <<<<"3","m">>, <<"3"," ","m","o","n","t","h","s">>>>}

normalize_choice(val, allowed) ==
    LET v   == Strip(val)
        low == ToLower(v)
    IN  IF \E i \in 1..Len(allowed) : low = ToLower(allowed[i])
        THEN allowed[CHOOSE i \in 1..Len(allowed) :
                        /\ low = ToLower(allowed[i])
                        /\ \A j \in 1..(i - 1) : low # ToLower(allowed[j])]
        ELSE IF allowed = YESNO
                /\ low \in {<<"y">>, <<"y","e","s">>, <<"t","r","u","e">>, <<"1">>}
        THEN Yes
        ELSE IF allowed = YESNO
                /\ low \in {<<"n">>, <<"n","o">>, <<"f","a","l","s","e">>, <<"0">>, <<>>,
                             <<"n","o","n","e">>}
        THEN No
        ELSE IF allowed = NOTICE /\ \E m \in mapv : m[1] = low
        THEN (CHOOSE m \in mapv : m[1] = low)[2]
        ELSE v

RECURSIVE JoinWords(_)
JoinWords(ws) ==
    IF ws = <<>> THEN <<>>
    ELSE IF Len(ws) = 1 THEN ws[1]
    ELSE ws[1] \o <<"_">> \o JoinWords(Tail(ws))

RECURSIVE StripChars(_, _)
StripChars(s, cs) ==
    IF s # <<>> /\ s[1] \in cs THEN StripChars(Tail(s), cs)
    ELSE IF s # <<>> /\ s[Len(s)] \in cs THEN StripChars(SubSeq(s, 1, Len(s) - 1), cs)
    ELSE s

\* werkzeug's secure_filename on ASCII names without path separators: the
\* words joined by "_", the characters outside [A-Za-z0-9_.-] dropped, and
\* leading and trailing "." and "_" stripped
secure_filename(fn) ==
    StripChars(SelectSeq(JoinWords(SelectSeq(Split(fn, " "), LAMBDA x : x # <<>>)),
                         LAMBDA c : IsAlnum(c) \/ c \in {"_", ".", "-"}),
               {".", "_"})

NoPath == <<>>

\* os.path.join(candidate_attach_dir(name, cid), fn)
AttachPath(name, cid, fn) == <<candidate_root(name, cid), "Attachments", fn>>

\* the rows of sl with Candidate ID == cid and Item == item
HasItem(sl, cid, item) ==
    \E i \in 1..Len(sl) : sl[i].cid = cid /\ sl[i].item = item

FirstOfItem(sl, cid, item) ==
    CHOOSE i \in 1..Len(sl) :
        /\ sl[i].cid = cid /\ sl[i].item = item
        /\ \A j \in 1..(i - 1) : ~(sl[j].cid = cid /\ sl[j].item = item)

\* str(prev.iloc[0].get("Mapped File Path", "") or "").strip(), with "nan"
\* (an empty cell read back) turned into ""
PrevPath(sl, cid, item) ==
    IF item # <<>> /\ HasItem(sl, cid, item)
    THEN sl[FirstOfItem(sl, cid, item)].path
    ELSE NoPath

\* a loop body that believes the submitted flag and forgets the kept file
ShortlistRow_FlagWins(sl, cid, name, e) ==
    LET item     == Strip(e.item)
        uploaded == e.file # <<>>
    IN  [cid  |-> cid, name |-> name, item |-> item,
         recv |-> normalize_choice(e.recv, YESNO),
         note |-> Strip(e.note),
         path |-> IF uploaded THEN AttachPath(name, cid, secure_filename(e.file))
                  ELSE NoPath]

\* one pass of the loop over item_i, recv_i, note_i, map_i
ShortlistRow(sl, cid, name, e) ==
    LET item     == Strip(e.item)
        uploaded == e.file # <<>>
    IN  [cid  |-> cid, name |-> name, item |-> item,
         recv |-> IF uploaded THEN Yes ELSE normalize_choice(e.recv, YESNO),
         note |-> Strip(e.note),
         path |-> IF uploaded THEN AttachPath(name, cid, secure_filename(e.file))
                  ELSE PrevPath(sl, cid, item)]

\* all_rows: the rows of the named items, then the row of the add-item field
ShortlistRows(sl, cid, name, form) ==
    LET each == [i \in 1..Len(form.items) |-> ShortlistRow(sl, cid, name, form.items[i])]
        new_item == Strip(form.new_item)
    IN  SelectSeq(each, LAMBDA r : r.item # <<>>)
        \o (IF new_item # <<>>
            THEN <<[cid |-> cid, name |-> name, item |-> new_item, recv |-> No,
                    note |-> <<>>, path |-> NoPath]>>
            ELSE <<>>)

\* a save that keeps the candidate's previous rows and adds the new ones
shortlist_save_Appends(caller, cid, form, w) ==
    IF ~require_role(caller, {"admin", "hr"}) \/ ~HasCid(Candidates, cid)
    THEN /\ ev' = Flash("shortlist_save", "error", "")
         /\ UNCHANGED <<sheets, dirs, calc>>
    ELSE LET cand_name == Candidates[FirstOfCid(Candidates, cid)].name
             all_rows  == ShortlistRows(Shortlist_Request, cid, cand_name, form)
         IN  /\ dirs' = dirs \cup {candidate_root(cand_name, cid)}
             /\ ev' = Flash("shortlist_save", IF all_rows = <<>> THEN "error" ELSE "success", "")
             /\ Shortlist_Request' = Shortlist_Request \o all_rows
             /\ UNCHANGED <<Screening_Form, Candidates, Interviews, Offer_Details, calc>>

\* POST /shortlist/save/<cand_id>; form.items are the rows 1..rows of the page
shortlist_save(caller, cid, form, w) ==
    IF ~require_role(caller, {"admin", "hr"})
    THEN /\ ev' = Flash("shortlist_save", "error", require_role_msg(caller))
         /\ UNCHANGED <<sheets, dirs, calc>>
    ELSE IF ~HasCid(Candidates, cid)
    THEN /\ ev' = Flash("shortlist_save", "error", "Candidate not found.")
         /\ UNCHANGED <<sheets, dirs, calc>>
    ELSE LET cand_name == Candidates[FirstOfCid(Candidates, cid)].name
             all_rows  == ShortlistRows(Shortlist_Request, cid, cand_name, form)
         IN  /\ dirs' = dirs \cup {candidate_root(cand_name, cid)}
             /\ IF all_rows = <<>>
                THEN /\ ev' = Flash("shortlist_save", "error", "Checklist empty.")
                     /\ UNCHANGED sheets
                ELSE /\ Shortlist_Request' =
                            _excel_write(w, Shortlist_Request,
                                         DropCid(Shortlist_Request, cid) \o all_rows)
                     /\ ev' = Flash("shortlist_save", "success", "Shortlist saved.")
                     /\ UNCHANGED <<Screening_Form, Candidates, Interviews,
                                    Offer_Details>>
             /\ UNCHANGED calc

\* rows.iloc[idx]["Item"] for the rows of cid, idx 0-based
ItemAt(sl, cid, idx) == SelectSeq(sl, LAMBDA r : r.cid = cid)[idx + 1].item

\* the guard shared by the two row routes: a sheet with rows, idx in range
shortlist_has_row(sl, cid, idx) ==
    /\ sl # <<>>
    /\ idx >= 0
    /\ idx < Len(SelectSeq(sl, LAMBDA r : r.cid = cid))

\* GET /shortlist/delete/<cand_id>/<idx>
shortlist_delete(caller, cid, idx, w) ==
    IF ~require_role(caller, {"admin", "hr"})
    THEN /\ ev' = Flash("shortlist_delete", "error", require_role_msg(caller))
         /\ UNCHANGED <<sheets, dirs, calc>>
    ELSE IF ~shortlist_has_row(Shortlist_Request, cid, idx)
    THEN /\ ev' = Flash("shortlist_delete", "error", "Nothing to delete.")
         /\ UNCHANGED <<sheets, dirs, calc>>
    ELSE LET target_item == ItemAt(Shortlist_Request, cid, idx)
         IN  /\ Shortlist_Request' =
                    _excel_write(w, Shortlist_Request,
                        SelectSeq(Shortlist_Request,
                                  LAMBDA r : ~(r.cid = cid /\ r.item = target_item)))
             /\ ev' = Flash("shortlist_delete", "success", "Item deleted.")
             /\ UNCHANGED <<Screening_Form, Candidates, Interviews, Offer_Details,
                            dirs, calc>>

\* GET /shortlist/remove-file/<cand_id>/<idx>
shortlist_remove_file(caller, cid, idx, w) ==
    IF ~require_role(caller, {"admin", "hr"})
    THEN /\ ev' = Flash("shortlist_remove_file", "error", require_role_msg(caller))
         /\ UNCHANGED <<sheets, dirs, calc>>
    ELSE IF ~shortlist_has_row(Shortlist_Request, cid, idx)
    THEN /\ ev' = Flash("shortlist_remove_file", "error", "Invalid index.")
         /\ UNCHANGED <<sheets, dirs, calc>>
    ELSE LET item_name == ItemAt(Shortlist_Request, cid, idx)
         IN  /\ Shortlist_Request' =
                    _excel_write(w, Shortlist_Request,
                        [i \in 1..Len(Shortlist_Request) |->
                            IF /\ Shortlist_Request[i].cid = cid
                               /\ Shortlist_Request[i].item = item_name
                            THEN [Shortlist_Request[i] EXCEPT !.path = NoPath]
                            ELSE Shortlist_Request[i]])
             /\ ev' = Flash("shortlist_remove_file", "success", "Attachment removed")
             /\ UNCHANGED <<Screening_Form, Candidates, Interviews, Offer_Details,
                            dirs, calc>>

----------------------------------------------------------------------------
(* Offers: template selection and total package *)

TPL_SAUDI        == "offer_saudi.xlsx"
TPL_PHIL_HO      == "offer_philippine_ho.xlsx"
TPL_PHIL_SITE    == "offer_philippine_site.xlsx"
TPL_FOREIGN_HO   == "offer_foreign_ho.xlsx"
TPL_FOREIGN_SITE == "offer_foreign_site.xlsx"

Templates == {TPL_SAUDI, TPL_PHIL_HO, TPL_PHIL_SITE, TPL_FOREIGN_HO, TPL_FOREIGN_SITE}

\* dict.get(key, default) on a form whose keys are DOMAIN p
Get(p, key, default) == IF key \in DOMAIN p THEN p[key] ELSE default

\* payload = {k: v.strip() for k, v in request.form.items()}
StripAll(form) == [k \in DOMAIN form |-> Strip(form[k])]

\* Python floats, as far as the handler can see them: a finite amount (in
\* hundredths), nan, or a signed infinity
Num(n) == [kind |-> "num", val |-> n]
NaN    == [kind |-> "nan", val |-> 0]
Inf(sign) == [kind |-> "inf", val |-> sign]

\* a + b on floats
FAdd(a, b) ==
    IF a.kind = "nan" \/ b.kind = "nan" THEN NaN
    ELSE IF a.kind = "inf" /\ b.kind = "inf"
         THEN (IF a.val = b.val THEN a ELSE NaN)
    ELSE IF a.kind = "inf" THEN a
    ELSE IF b.kind = "inf" THEN b
    ELSE Num(a.val + b.val)

\* the digits after the point, as hundredths
FracVal(fs) ==
    IF fs = <<>> THEN 0
    ELSE IF Len(fs) = 1 THEN 10 * DigitVal(fs[1])
    ELSE 10 * DigitVal(fs[1]) + DigitVal(fs[2])

AllDigits(s) == \A i \in 1..Len(s) : IsDigit(s[i])

\* an unsigned decimal literal: digits, optionally one point, at least one digit
IsDecimal(b) ==
    LET parts == Split(b, ".")
    IN  /\ Len(parts) \in {1, 2}
        /\ \A i \in 1..Len(parts) : AllDigits(parts[i])
        /\ \E i \in 1..Len(parts) : parts[i] # <<>>

DecimalVal(b) ==
    LET parts == Split(b, ".")
    IN  100 * NumVal(parts[1]) + (IF Len(parts) = 2 THEN FracVal(parts[2]) ELSE 0)

FloatWords == {<<"n","a","n">>, <<"i","n","f">>, <<"i","n","f","i","n","i","t","y">>}

Unsigned(t) == IF t # <<>> /\ Head(t) \in {"+", "-"} THEN Tail(t) ELSE t
SignOf(t) == IF t # <<>> /\ Head(t) = "-" THEN -1 ELSE 1

\* TRUE when float(s) returns (no ValueError); exponents and digit-group
\* underscores are not among the inputs of this model
float_ok(s) ==
    LET b == Unsigned(Strip(s))
    IN  IsDecimal(b) \/ ToLower(b) \in FloatWords

\* float(s) where float_ok(s)
float(s) ==
    LET t == Strip(s)
        b == Unsigned(t)
    IN  IF IsDecimal(b) THEN Num(SignOf(t) * DecimalVal(b))
        ELSE IF ToLower(b) = <<"n","a","n">> THEN NaN
        ELSE Inf(SignOf(t))

\* get_f(key) of offer_generate: float(payload.get(key, "0") or 0), 0.0 on error
get_f(payload, key) ==
    LET raw == Get(payload, key, <<"0">>)
    IN  IF raw = <<>> THEN Num(0)
        ELSE IF float_ok(raw) THEN float(raw)
        ELSE Num(0)

\* total_pkg = basic + accom + trans + fixed + other
total_pkg(payload) ==
    FAdd(FAdd(FAdd(FAdd(get_f(payload, "Basic Salary"),
                        get_f(payload, "Accommodation Allowance")),
                   get_f(payload, "Transportation Allowance")),
              get_f(payload, "Monthly Fixed Allowance")),
         get_f(payload, "Other Monthly Allowance"))

\* offer_generate's decision tree with the Philippine test ahead of the Saudi one
template_file_PhilFirst(payload) ==
    LET nationality   == ToLower(Strip(Get(payload, "Nationality", <<>>)))
        location_type == Strip(Get(payload, "Location Type",
                                   <<"H","e","a","d"," ","O","f","f","i","c","e">>))
        Site == <<"S","i","t","e">>
    IN  IF \/ Contains(nationality, <<"f","i","l","i","p","i","n","o">>)
           \/ Contains(nationality, <<"p","h","i","l","i","p","p","i","n","e","s">>)
        THEN (IF location_type = Site THEN TPL_PHIL_SITE ELSE TPL_PHIL_HO)
        ELSE IF Contains(nationality, <<"s","a","u","d","i">>) THEN TPL_SAUDI
        ELSE (IF location_type = Site THEN TPL_FOREIGN_SITE ELSE TPL_FOREIGN_HO)

\* the decision tree of offer_generate: the template file chosen
template_file(payload) ==
    LET nationality   == ToLower(Strip(Get(payload, "Nationality", <<>>)))
        location_type == Strip(Get(payload, "Location Type",
                                   <<"H","e","a","d"," ","O","f","f","i","c","e">>))
        Site == <<"S","i","t","e">>
    IN  IF Contains(nationality, <<"s","a","u","d","i">>) THEN TPL_SAUDI
        ELSE IF \/ Contains(nationality, <<"f","i","l","i","p","i","n","o">>)
                \/ Contains(nationality, <<"p","h","i","l","i","p","p","i","n","e","s">>)
        THEN (IF location_type = Site THEN TPL_PHIL_SITE ELSE TPL_PHIL_HO)
        ELSE (IF location_type = Site THEN TPL_FOREIGN_SITE ELSE TPL_FOREIGN_HO)

\* a generation that raises nothing
_generate_offer_doc_NeverRaises(cid, name, tpl, tpls) == ""

\* _generate_offer_doc: "" when the document is written, else the exception
\* it raises; tpls is the set of template files present in BASE_DIR
_generate_offer_doc(cid, name, tpl, tpls) ==
    IF candidate_root(name, cid) \notin dirs THEN "Candidate folder not found"
    ELSE IF tpl \notin tpls THEN "Template not found"
    ELSE ""

\* POST /offers/generate; form.selected is the hidden "Name [ID]" field
offer_generate(caller, form, tpls, w1, w2) ==
    IF ~require_role(caller, {"admin", "hr"})
    THEN /\ ev' = Flash("offer_generate", "error", require_role_msg(caller))
         /\ UNCHANGED <<sheets, dirs, calc>>
    ELSE IF form.selected = NoPick
    THEN /\ ev' = Flash("offer_generate", "error", "Load a candidate first.")
         /\ UNCHANGED <<sheets, dirs, calc>>
    ELSE LET cid     == form.selected.cid
             c_name  == Strip(form.selected.name)
             payload == StripAll(form.payload)
             tpl     == template_file(payload)
             new_row == [cid |-> cid, name |-> c_name,
                         basic |-> Get(payload, "Basic Salary", <<>>)]
         IN  IF _generate_offer_doc(cid, c_name, tpl, tpls) # ""
             THEN /\ ev' = Flash("offer_generate", "error", "Offer generation failed")
                  /\ UNCHANGED <<sheets, dirs, calc>>
             ELSE /\ Offer_Details' = _excel_write(w1, Offer_Details,
                        upsert_by_cid(Offer_Details, cid, new_row, new_row))
                  /\ Candidates' = IF HasCid(Candidates, cid)
                                   THEN _excel_write(w2, Candidates,
                                            SetStatus(Candidates, cid, "Offer Issued"))
                                   ELSE Candidates
                  /\ ev' = Flash("offer_generate", "success", "Offer created")
                  /\ UNCHANGED <<Screening_Form, Interviews, dirs, Shortlist_Request, calc>>

----------------------------------------------------------------------------
(* Request inputs *)

C1id == "CAND-20250310-A1B2C3"
C2id == "CAND-20250310-D4E5F6"
CandIds == {C1id, C2id}

Name1 == <<"J","o"," ","D">>
Name2 == <<"A","l","i">>
Job   == <<"H","R">>

DateGood  == <<"2","0","2","5","-","0","3","-","1","0">>
DateBad   == <<"2","0","2","5","-","0","2","-","3","0">>     \* 30 February
DateSlash == <<"1","0","/","0","3","/","2","0","2","5">>
TimeGood  == <<"0","9",":","3","0">>
TimeBad   == <<"2","5",":","0","0">>

Room == <<"H","Q">>
Link == <<"z","m">>

IvPicks == {[name |-> Name1, cid |-> C1id], [name |-> Name2, cid |-> C2id]}

\* (Mode, Location, Meeting Link) as submitted
IvPlaces ==
    {[mode |-> "Onsite", loc |-> Room, link |-> Link],
     [mode |-> "Online", loc |-> <<" ">> \o Room, link |-> Link \o <<" ">>]}

IvForm(p, d, t, m, s) ==
    [pick |-> p, date |-> d, time |-> t, mode |-> m.mode, loc |-> m.loc,
     link |-> m.link, second |-> s]

\* forms that pass validation
IvGoodForms ==
    {IvForm(p, DateGood, TimeGood, m, s) : p \in IvPicks, m \in IvPlaces, s \in BOOLEAN}

\* forms that fail it: no pick, no date, no time, a date or time strptime rejects
IvBadForms ==
    {IvForm([name |-> Name1, cid |-> C1id], dt[1], dt[2],
            [mode |-> "Online", loc |-> Room, link |-> Link], dt[3]) :
        dt \in {<<<<>>, TimeGood, FALSE>>, <<<<" ">>, TimeGood, TRUE>>,
                <<DateGood, <<>>, FALSE>>, <<DateBad, TimeGood, TRUE>>,
                <<DateSlash, TimeGood, FALSE>>, <<DateGood, TimeBad, TRUE>>}}
    \cup {IvForm(NoPick, DateGood, TimeGood,
                 [mode |-> "Onsite", loc |-> Room, link |-> Link], TRUE)}

IvForms == IvGoodForms \cup IvBadForms

RowIdx == 0..MaxRows      \* <int:idx> of the row routes (0-based, may be out of range)

CAND_STATUS == {"Screening", "Shortlist", "Interview", "Second Interview",
                "Offer Issued", "Offer Accepted", "Rejected", "On Hold",
                "Back Up", "Other"}

\* statuses the first listed candidate may start with
InitStatus == {"Screening", "Interview", "Offer Issued", "Rejected"}

NoCalc == [fn |-> "none"]
NoEv == Flash("none", "none", "")

----------------------------------------------------------------------------
(* Interview scheduling over a workbook that already lists two candidates *)

Init ==
    /\ \E s1 \in InitStatus, s2 \in {"Shortlist"} :
          Candidates = <<[cid |-> C1id, name |-> Name1, role |-> Job, status |-> s1,
                          req |-> "", comment |-> ""],
                         [cid |-> C2id, name |-> Name2, role |-> Job, status |-> s2,
                          req |-> "", comment |-> ""]>>
    /\ Screening_Form = <<[cid |-> C1id, name |-> Name1, role |-> Job],
                          [cid |-> C2id, name |-> Name2, role |-> Job]>>
    /\ Interviews = <<>>
    /\ Offer_Details = <<>>
    /\ Shortlist_Request = <<>>
    /\ dirs = {candidate_root(Name1, C1id)}
    /\ ev = NoEv
    /\ calc = NoCalc

\* a caller the role check turns away is turned away before the form is
\* read: one form stands for all of them
IvFormsOf(caller) ==
    IF caller \in {"admin", "hr"} THEN IvForms
    ELSE {IvForm([name |-> Name1, cid |-> C1id], DateGood, TimeGood,
                 [mode |-> "Online", loc |-> Room, link |-> Link], FALSE)}

Schedule ==
    \E caller \in Callers :
        \E f \in IvFormsOf(caller) :
            /\ interviews(caller, f, TRUE, TRUE)
            /\ Len(Interviews') <= MaxRows

Delete == \E caller \in Callers, idx \in RowIdx : interview_delete(caller, idx, TRUE)

DoneFirst == \E idx \in RowIdx : interview_done_first(idx, TRUE)

UndoFirst == \E idx \in RowIdx : interview_undo_first(idx, TRUE)

RequestSecond == \E idx \in RowIdx : interview_request_second(idx)

DoneSecond == \E idx \in RowIdx : interview_done_second(idx, TRUE)

UndoSecond == \E idx \in RowIdx : interview_undo_second(idx, TRUE)

Done == \E caller \in Callers, idx \in RowIdx : interview_done(caller, idx, TRUE)

Undo == \E caller \in Callers, idx \in RowIdx : interview_undo(caller, idx, TRUE)

Next ==
    \/ Schedule
    \/ Delete
    \/ DoneFirst
    \/ UndoFirst
    \/ RequestSecond
    \/ DoneSecond
    \/ UndoSecond
    \/ Done
    \/ Undo

Spec == Init /\ [][Next]_vars

----------------------------------------------------------------------------
(* The offer computations on their own: template choice and total package *)

NatSaudi       == <<"S","a","u","d","i">>
NatSaudiUpper  == <<" ","S","A","U","D","I"," ","x">>
NatFilipino    == <<"F","i","l","i","p","i","n","o">>
NatPhilippines == <<"p","h","i","l","i","p","p","i","n","e","s">>
NatPhilippine  == <<"P","h","i","l","i","p","p","i","n","e">>
NatBoth        == <<"F","i","l","i","p","i","n","o","-","s","a","u","d","i">>
NatIndian      == <<"I","n","d","i","a","n">>

LocSite       == <<"S","i","t","e">>
LocSitePadded == <<" ","S","i","t","e"," ">>
LocSiteLower  == <<"s","i","t","e">>
LocHeadOffice == <<"H","e","a","d"," ","O","f","f","i","c","e">>

MoneyKeys == {"Basic Salary", "Accommodation Allowance", "Transportation Allowance",
              "Monthly Fixed Allowance", "Other Monthly Allowance"}

\* the values each amount field is tried with; "absent" leaves the key out
MoneyInputs ==
    [b : {"absent", <<>>, <<"5","0","0","0">>, <<"a","b","c">>, <<"n","a","n">>},
     a : {"absent", <<"1","2","5","0">>, <<" ","1","2",".","5"," ">>, <<"-","i","n","f">>},
     t : {<<"5","0","0">>, <<>>, <<"-","5">>},
     f : {"absent", <<"3","0","0">>, <<"N","/","A">>},
     o : {<<"2","0","0">>, <<" ">>, <<"I","n","f","i","n","i","t","y">>}]

\* a form from optional fields: the pairs whose value is "absent" are left out
FormOf(pairs) ==
    [k \in {q[1] : q \in {q \in pairs : q[2] # "absent"}} |->
        (CHOOSE q \in pairs : q[1] = k)[2]]

OfferPayloads ==
    {FormOf({<<"Nationality", n>>, <<"Location Type", l>>,
             <<"Basic Salary", <<"5","0","0","0">>>>}) :
        n \in {"absent", <<>>, NatSaudi, NatSaudiUpper, NatFilipino, NatPhilippines,
               NatPhilippine, NatBoth, NatIndian},
        l \in {"absent", <<>>, LocSite, LocSitePadded, LocSiteLower, LocHeadOffice}}
    \cup
    {FormOf({<<"Nationality", NatFilipino>>, <<"Location Type", LocSite>>,
             <<"Basic Salary", m.b>>, <<"Accommodation Allowance", m.a>>,
             <<"Transportation Allowance", m.t>>, <<"Monthly Fixed Allowance", m.f>>,
             <<"Other Monthly Allowance", m.o>>}) : m \in MoneyInputs}

InitOffer ==
    /\ Screening_Form = <<>> /\ Candidates = <<>> /\ Interviews = <<>>
    /\ Offer_Details = <<>> /\ Shortlist_Request = <<>>
    /\ dirs = {} /\ ev = NoEv
    /\ \E form \in OfferPayloads : calc = [fn |-> "form", form |-> form]

\* lines 2634-2706 of offer_generate applied to the submitted form
Compute ==
    /\ calc.fn = "form"
    /\ calc' = [fn |-> "offer", form |-> calc.form,
                tpl |-> template_file(StripAll(calc.form)),
                total |-> total_pkg(StripAll(calc.form))]
    /\ UNCHANGED <<sheets, dirs, ev>>

NextOffer == Compute

SpecOffer == InitOffer /\ [][NextOffer]_vars

----------------------------------------------------------------------------
(* Screening, scheduling and offers over a workbook that starts empty *)

MaxCands == 2         \* rows the Candidates and Screening_Form sheets may hold

Staff == {"admin", "hr"}

NamePadded == <<" ">> \o Name1 \o <<" ">>

Salary5000 == <<"5","0","0","0">>
Salary6000 == <<"6","0","0","0">>

\* uploaded files: a first data row, or one of the early exits
ImportFiles ==
    {[kind |-> "rows", row |-> [name |-> n, role |-> r, req |-> ""]] :
        n \in {NamePadded, Name2, <<>>, <<" ">>}, r \in {Job, <<>>}}
    \cup {[kind |-> "No data found.", row |-> [name |-> <<>>, role |-> <<>>, req |-> ""]]}

\* screening forms: hidden Candidate ID (empty on a new record), name, role
SaveForms == [cid : {"", C1id}, name : {Name1, <<" ">>}, role : {Job, <<>>}, req : {""}]

HRPick == [name |-> Name1, cid |-> C1id]

HRIvForms ==
    {IvForm(HRPick, DateGood, TimeGood,
            [mode |-> "Online", loc |-> Room, link |-> Link], FALSE)}
    \cup IvBadForms

OfferPicks == {[name |-> Name1, cid |-> C1id], [name |-> Name1, cid |-> C2id], NoPick}

OfferForms ==
    {[selected |-> p,
      payload  |-> FormOf({<<"Nationality", NatSaudi>>, <<"Basic Salary", b>>})] :
        p \in OfferPicks, b \in {Salary5000, Salary6000}}

\* the template files present in the application folder: all, or none
TplSets == {Templates, {}}

\* what a caller is tried with: the role check turns the others away before
\* the request is read
Tried(caller, inputs) ==
    IF caller \in Staff THEN inputs ELSE {CHOOSE x \in inputs : TRUE}

InitHR ==
    /\ Screening_Form = <<>> /\ Candidates = <<>> /\ Interviews = <<>>
    /\ Offer_Details = <<>> /\ Shortlist_Request = <<>>
    /\ dirs = {} /\ ev = NoEv /\ calc = NoCalc

Import ==
    \E caller \in Callers, newid \in CandIds :
        \E file \in Tried(caller, ImportFiles) :
            /\ screening_import(caller, file, newid, TRUE, TRUE)
            /\ Len(Candidates') <= MaxCands
            /\ Len(Screening_Form') <= MaxCands

Save ==
    \E caller \in Callers, newid \in CandIds :
        \E form \in Tried(caller, SaveForms) :
            /\ screening_save(caller, form, newid, TRUE, TRUE)
            /\ Len(Candidates') <= MaxCands
            /\ Len(Screening_Form') <= MaxCands

ScheduleHR ==
    \E caller \in Callers :
        \E f \in Tried(caller, HRIvForms) :
            /\ interviews(caller, f, TRUE, TRUE)
            /\ Len(Interviews') <= MaxCands

Generate ==
    \E caller \in Callers, tpls \in TplSets :
        \E form \in Tried(caller, OfferForms) :
            /\ offer_generate(caller, form, tpls, TRUE, TRUE)
            /\ Len(Offer_Details') <= MaxCands

NextHR ==
    \/ Import
    \/ Save
    \/ ScheduleHR
    \/ Generate

SpecHR == InitHR /\ [][NextHR]_vars

----------------------------------------------------------------------------
(* Candidate register: import, screening save, status edit, comment and   *)
(* the two deletes, from an empty workbook.  W is the set of outcomes a    *)
(* sheet write may have: {TRUE} when the workbook is never locked; S is   *)
(* the set of values the Status field is submitted with.                   *)

\* values of the Status field: the ten of the select box, and one a crafted
\* request can carry
MetaStatuses == CAND_STATUS \cup {"Hired"}

\* usernames of signed-in users; users_create accepts any non-empty name
Users == {"u1", "u2", "nan"}

CommentText == "please proceed"

\* one uploaded file, whose first data row names its requestor
CandFile == [kind |-> "rows", row |-> [name |-> Name2, role |-> Job, req |-> "u1"]]

\* screening forms of a new record and of the record C1id
CandForms == [cid : {"", C1id}, name : {Name1}, role : {Job}, req : {""}]

CandImport(W) ==
    \E caller \in Callers, newid \in CandIds, w1 \in W, w2 \in W :
        /\ screening_import(caller, CandFile, newid, w1, w2)
        /\ Len(Candidates') <= MaxCands
        /\ Len(Screening_Form') <= MaxCands

CandSave(W) ==
    \E caller \in Callers, newid \in CandIds, w1 \in W, w2 \in W :
        \E form \in Tried(caller, CandForms) :
            /\ screening_save(caller, form, newid, w1, w2)
            /\ Len(Candidates') <= MaxCands
            /\ Len(Screening_Form') <= MaxCands

MetaSave(W, S) ==
    \E caller \in Callers, cid \in CandIds, w \in W :
        \E status \in Tried(caller, S) :
            candidate_meta_save(caller, cid, status, w)

Comment(W) ==
    \E caller \in Callers, user \in Users, cid \in CandIds, w \in W :
        candidate_comment(caller, user, cid, CommentText, w)

CandDeleteAll(W) ==
    \E caller \in Callers, cid \in CandIds, w1 \in W, w2 \in W :
        candidate_delete_all(caller, cid,
            [cd |-> w1, sf |-> w2, sl |-> TRUE, iv |-> TRUE, od |-> TRUE])

CandScreeningDelete(W) ==
    \E caller \in Callers, cid \in CandIds, w1 \in W, w2 \in W :
        screening_delete(caller, cid, w1, w2)

NextCand(W, S) ==
    \/ CandImport(W)
    \/ CandSave(W)
    \/ MetaSave(W, S)
    \/ Comment(W)
    \/ CandDeleteAll(W)
    \/ CandScreeningDelete(W)

SpecCand == InitHR /\ [][NextCand({TRUE}, MetaStatuses)]_vars

\* the same register when the workbook may be locked or unwritable: every
\* sheet write either succeeds or fails after its retries (one submitted
\* status stands for the eleven)
SpecCandFault == InitHR /\ [][NextCand(BOOLEAN, {"Rejected"})]_vars

----------------------------------------------------------------------------
(* Deletes: two listed candidates gather interview, checklist and offer   *)
(* rows, and either delete route removes a candidate.                      *)

ItemCV == <<"C","V">>
ItemID == <<"I","D">>
FileCV == <<"m","y"," ","c","v",".","p","d","f">>

\* one row of the checklist page: Item, Received, Notes and the file chosen
SlEntry(item, recv, file) == [item |-> item, recv |-> recv, note |-> <<>>, file |-> file]

DelIvForms ==
    {IvForm(p, DateGood, TimeGood, [mode |-> "Online", loc |-> Room, link |-> Link],
            FALSE) : p \in IvPicks}

DelOfferForms ==
    {[selected |-> p,
      payload  |-> FormOf({<<"Nationality", NatSaudi>>, <<"Basic Salary", Salary5000>>})] :
        p \in IvPicks}

DelSlForm == [items |-> <<SlEntry(ItemCV, <<"y">>, FileCV)>>, new_item |-> <<>>]

AllWritten == [cd |-> TRUE, sf |-> TRUE, sl |-> TRUE, iv |-> TRUE, od |-> TRUE]

DelSchedule ==
    \E caller \in Callers :
        \E f \in Tried(caller, DelIvForms) :
            /\ interviews(caller, f, TRUE, TRUE)
            /\ Len(Interviews') <= MaxRows

DelGenerate ==
    \E caller \in Callers :
        \E form \in Tried(caller, DelOfferForms) :
            /\ offer_generate(caller, form, Templates, TRUE, TRUE)
            /\ Len(Offer_Details') <= MaxRows

DelShortlistSave ==
    \E caller \in Callers, cid \in CandIds :
        /\ shortlist_save(caller, cid, DelSlForm, TRUE)
        /\ Len(Shortlist_Request') <= MaxRows

DeleteAll ==
    \E caller \in Callers, cid \in CandIds :
        /\ candidate_delete_all(caller, cid, AllWritten)
        /\ Len(Candidates') <= MaxRows

ScreeningDelete ==
    \E caller \in Callers, cid \in CandIds :
        /\ screening_delete(caller, cid, TRUE, TRUE)
        /\ Len(Candidates') <= MaxRows

NextDelete ==
    \/ DelSchedule
    \/ DelGenerate
    \/ DelShortlistSave
    \/ DeleteAll
    \/ ScreeningDelete

SpecDelete == Init /\ [][NextDelete]_vars

----------------------------------------------------------------------------
(* Checklists: saves, item deletes and attachment removals for the two    *)
(* listed candidates.                                                      *)

ItemCVPadded == <<" ">> \o ItemCV

\* rows of the page: a typed flag without a file, an upload with an empty
\* flag and a padded name, a flag outside the choices, a row of blank name
RowCV == SlEntry(ItemCV, <<"n">>, <<>>)
RowCVFile == SlEntry(ItemCVPadded, <<>>, FileCV)
RowID == SlEntry(ItemID, <<"m","a","y","b","e">>, <<>>)
RowBlank == SlEntry(<<" ">>, <<"y">>, FileCV)

NewID == ItemID \o <<" ">>

\* pages of zero, one or two rows, with and without the add-item field
SlForms ==
    {[items |-> <<>>, new_item |-> <<>>],
     [items |-> <<RowBlank>>, new_item |-> <<" ">>],
     [items |-> <<RowCV>>, new_item |-> <<>>],
     [items |-> <<RowCVFile>>, new_item |-> <<>>],
     [items |-> <<RowID, RowCV>>, new_item |-> <<>>],
     [items |-> <<RowCV, RowCVFile>>, new_item |-> <<>>],
     [items |-> <<RowID>>, new_item |-> NewID],
     [items |-> <<RowBlank, RowCV>>, new_item |-> NewID],
     [items |-> <<>>, new_item |-> NewID]}

\* the first candidate is sent every form, the second a single one
SlFormsOf(cid) == IF cid = C1id THEN SlForms ELSE {DelSlForm}

SlIdx == 0..3

SlSave ==
    \E caller \in Callers, cid \in CandIds :
        \E form \in Tried(caller, SlFormsOf(cid)) :
            shortlist_save(caller, cid, form, TRUE)

SlDelete ==
    \E caller \in Callers, cid \in CandIds, idx \in SlIdx :
        shortlist_delete(caller, cid, idx, TRUE)

SlRemoveFile ==
    \E caller \in Callers, cid \in CandIds, idx \in SlIdx :
        shortlist_remove_file(caller, cid, idx, TRUE)

NextShortlist ==
    \/ SlSave
    \/ SlDelete
    \/ SlRemoveFile

\* the two listed candidates, the first still in Screening
InitShortlist == Init /\ Candidates[1].status = "Screening"

SpecShortlist == InitShortlist /\ [][NextShortlist]_vars

----------------------------------------------------------------------------
(* The sheet writer, attempt by attempt.  calc holds the frame of the      *)
(* running call: the sheet and frame being written, where the loop stands, *)
(* what each attempt met, and what the call returned.                      *)

retries == 3

\* what one pass through the try block can meet
WriteOutcomes == {"ok", "PermissionError", "Exception"}

\* after time.sleep(delay): the next pass of range(retries), or the return
\* False below the loop
after_sleep_Forever(made) == "try"

after_sleep(made) == IF made < retries THEN "try" ELSE "return"

WriteSheets == {"Candidates", "Screening_Form"}

\* the frames a caller hands over: the sheet emptied, or holding one record
WriteFrames(sheet) ==
    IF sheet = "Candidates"
    THEN {<<>>, <<[cid |-> C1id, name |-> Name1, role |-> Job, status |-> "Screening",
                   req |-> "", comment |-> ""]>>}
    ELSE {<<>>, <<[cid |-> C1id, name |-> Name1, role |-> Job]>>}

Idle == [fn |-> "_excel_write", pc |-> "idle"]

InitWrite ==
    /\ Screening_Form = <<>> /\ Candidates = <<>> /\ Interviews = <<>>
    /\ Offer_Details = <<>> /\ Shortlist_Request = <<>>
    /\ dirs = {} /\ ev = NoEv /\ calc = Idle

Running == calc.pc \in {"try", "sleep"}

\* a handler calls _excel_write(df, sheet)
WriteCall ==
    /\ calc.pc \in {"idle", "return"}
    /\ \E sheet \in WriteSheets : \E df \in WriteFrames(sheet) :
          calc' = [fn |-> "_excel_write", pc |-> "try", sheet |-> sheet, df |-> df,
                   met |-> <<>>, result |-> "none"]
    /\ UNCHANGED <<sheets, dirs, ev>>

\* the with block completes: the sheet is replaced and the call returns True
WriteOk ==
    /\ calc.pc = "try"
    /\ calc' = [calc EXCEPT !.pc = "return", !.met = Append(@, "ok"),
                            !.result = "True"]
    /\ Candidates' = IF calc.sheet = "Candidates" THEN calc.df ELSE Candidates
    /\ Screening_Form' = IF calc.sheet = "Screening_Form" THEN calc.df
                         ELSE Screening_Form
    /\ UNCHANGED <<Interviews, Offer_Details, Shortlist_Request, dirs, ev>>

\* except PermissionError: the workbook is locked by another writer
WriteLocked ==
    /\ calc.pc = "try"
    /\ calc' = [calc EXCEPT !.pc = "sleep", !.met = Append(@, "PermissionError")]
    /\ UNCHANGED <<sheets, dirs, ev>>

\* except Exception: break, and the return False below the loop
WriteBreak ==
    /\ calc.pc = "try"
    /\ calc' = [calc EXCEPT !.pc = "return", !.met = Append(@, "Exception"),
                            !.result = "False"]
    /\ UNCHANGED <<sheets, dirs, ev>>

\* time.sleep(delay) returns
WriteSleep ==
    /\ calc.pc = "sleep"
    /\ calc' = [calc EXCEPT !.pc = after_sleep(Len(calc.met)),
                            !.result = IF after_sleep(Len(calc.met)) = "return"
                                       THEN "False" ELSE @]
    /\ UNCHANGED <<sheets, dirs, ev>>

NextWrite ==
    \/ WriteCall
    \/ WriteOk
    \/ WriteLocked
    \/ WriteBreak
    \/ WriteSleep

SpecWrite == InitWrite /\ [][NextWrite]_vars

\* an attempt ends (the writer returns or raises) and a sleep ends
SpecWriteFair ==
    SpecWrite /\ WF_vars(WriteOk \/ WriteLocked \/ WriteBreak) /\ WF_vars(WriteSleep)

----------------------------------------------------------------------------
(* Two requests handled at the same time.  Each edit of the Candidates     *)
(* sheet is a read of the whole sheet, a change of the copy, and a write   *)
(* of the whole copy; calc holds the two requests and the order of their   *)
(* reads and writes.                                                       *)

Reqs == {"A", "B"}

\* an edit: the status edit sets "status", the comment sets "comment"
Edits ==
    {[cid |-> c, col |-> "status", val |-> "Rejected"] : c \in CandIds}
    \cup {[cid |-> c, col |-> "comment", val |-> CommentText] : c \in CandIds}

\* a handler that would take a lock and edit the sheet as it is now
WriteBack_Merges(sheet, local, op) == SetField(sheet, op.cid, op.col, op.val)

\* what the handler writes: its own copy with its own change
WriteBack(sheet, local, op) == SetField(local, op.cid, op.col, op.val)

NoReq == [pc |-> "idle", op |-> [cid |-> "", col |-> "", val |-> ""], local |-> <<>>,
          result |-> "none"]

\* the two listed candidates, and no request under way
InitRace ==
    /\ Candidates = <<[cid |-> C1id, name |-> Name1, role |-> Job, status |-> "Screening",
                       req |-> "", comment |-> ""],
                      [cid |-> C2id, name |-> Name2, role |-> Job, status |-> "Shortlist",
                       req |-> "", comment |-> ""]>>
    /\ Screening_Form = <<[cid |-> C1id, name |-> Name1, role |-> Job],
                          [cid |-> C2id, name |-> Name2, role |-> Job]>>
    /\ Interviews = <<>> /\ Offer_Details = <<>> /\ Shortlist_Request = <<>>
    /\ dirs = {candidate_root(Name1, C1id)}
    /\ ev = NoEv
    /\ calc = [fn |-> "requests", req |-> [p \in Reqs |-> NoReq], log |-> <<>>]

\* a request by hr arrives: POST /candidates/meta/save or /candidates/comment
ReqBegin(p) ==
    /\ calc.fn = "requests" /\ calc.req[p].pc = "idle"
    /\ \E op \in Edits :
          calc' = [calc EXCEPT !.req[p] = [NoReq EXCEPT !.pc = "read", !.op = op]]
    /\ UNCHANGED <<sheets, dirs, ev>>

\* cand_df = _excel_read("Candidates") and the two tests on it
ReqRead(p) ==
    /\ calc.fn = "requests" /\ calc.req[p].pc = "read"
    /\ IF Candidates = <<>> \/ ~HasCid(Candidates, calc.req[p].op.cid)
       THEN /\ ev' = Flash("candidate_meta_save", "error", "Candidate not found.")
            /\ calc' = [calc EXCEPT !.req[p].pc = "done", !.req[p].result = "error",
                                    !.log = Append(@, <<p, "read">>)]
       ELSE /\ calc' = [calc EXCEPT !.req[p].pc = "write", !.req[p].local = Candidates,
                                    !.log = Append(@, <<p, "read">>)]
            /\ UNCHANGED ev
    /\ UNCHANGED <<sheets, dirs>>

\* cand_df.loc[m, col] = val; _excel_write(cand_df, "Candidates"); flash success
ReqWrite(p) ==
    /\ calc.fn = "requests" /\ calc.req[p].pc = "write"
    /\ Candidates' = _excel_write(TRUE, Candidates,
                                  WriteBack(Candidates, calc.req[p].local, calc.req[p].op))
    /\ ev' = Flash("candidate_meta_save", "success", "Candidate updated.")
    /\ calc' = [calc EXCEPT !.req[p].pc = "done", !.req[p].result = "success",
                            !.log = Append(@, <<p, "write">>)]
    /\ UNCHANGED <<Screening_Form, Interviews, Offer_Details, Shortlist_Request, dirs>>

NextRace ==
    \/ \E p \in Reqs : ReqBegin(p)
    \/ \E p \in Reqs : ReqRead(p)
    \/ \E p \in Reqs : ReqWrite(p)

SpecRace == InitRace /\ [][NextRace]_vars

----------------------------------------------------------------------------
(* Folder names: candidate_root applied, twice, to every short name *)

MaxName == 3          \* longest candidate name tried

NameChars == {"a", "Z", "7", " ", "_", "-", ".", "/"}

FolderNames == UNION {[1..n -> NameChars] : n \in 0..MaxName}

InitFolder ==
    /\ Screening_Form = <<>> /\ Candidates = <<>> /\ Interviews = <<>>
    /\ Offer_Details = <<>> /\ Shortlist_Request = <<>>
    /\ dirs = {} /\ ev = NoEv
    /\ \E name \in FolderNames : calc = [fn |-> "name", name |-> name, cid |-> C1id]

\* two calls of candidate_root(name, cid)
FolderName ==
    /\ calc.fn = "name"
    /\ calc' = [fn |-> "candidate_root", name |-> calc.name, cid |-> calc.cid,
                out |-> candidate_root(calc.name, calc.cid),
                again |-> candidate_root(calc.name, calc.cid)]
    /\ UNCHANGED <<sheets, dirs, ev>>

NextFolder == FolderName

SpecFolder == InitFolder /\ [][NextFolder]_vars

----------------------------------------------------------------------------
(* Claims about the offer computations (SpecOffer) *)

\* s has a window that reads w when lower-cased
HasWord(s, w) ==
    \E i \in 1..Len(s) : \E j \in i..Len(s) : ToLower(SubSeq(s, i, j)) = w

\* the template the decision order of the specification asks for
ExpectedTemplate(form) ==
    LET nat  == Get(form, "Nationality", <<>>)
        site == Strip(Get(form, "Location Type", LocHeadOffice)) = LocSite
    IN  IF HasWord(nat, <<"s","a","u","d","i">>) THEN TPL_SAUDI
        ELSE IF \/ HasWord(nat, <<"f","i","l","i","p","i","n","o">>)
                \/ HasWord(nat, <<"p","h","i","l","i","p","p","i","n","e","s">>)
        THEN (IF site THEN TPL_PHIL_SITE ELSE TPL_PHIL_HO)
        ELSE (IF site THEN TPL_FOREIGN_SITE ELSE TPL_FOREIGN_HO)

\* C1: for every nationality and location type offer_generate selects exactly
\* one of the five templates, by the order saudi, then filipino/philippines
\* split by Site, then foreign split by Site, matching the nationality
\* case-insensitively as a substring.
C1_TemplateByDecisionOrder ==
    calc.fn = "offer" =>
        /\ calc.tpl \in Templates
        /\ calc.tpl = ExpectedTemplate(calc.form)

\* C1 witness: a nationality naming both Filipino and Saudi, at a Site, was
\* given the Saudi template (first match wins).
C1_Witness ==
    /\ calc.fn = "offer"
    /\ Get(calc.form, "Nationality", <<>>) = NatBoth
    /\ Get(calc.form, "Location Type", <<>>) = LocSite
    /\ calc.tpl = TPL_SAUDI

\* the amount a component stands for: its decimal value when it is written as
\* a number, 0 when it is missing, empty or not a number
AmountOrZero(form, key) ==
    LET t == Strip(Get(form, key, <<>>))
    IN  IF IsDecimal(Unsigned(t)) THEN SignOf(t) * DecimalVal(Unsigned(t)) ELSE 0

\* C2: the Total Package equals Basic + Accommodation + Transportation +
\* Monthly Fixed + Other Monthly, every missing, empty or non-numeric
\* component counting as 0, for all inputs.
C2_TotalIsSumOfComponents ==
    calc.fn = "offer" =>
        calc.total = Num(AmountOrZero(calc.form, "Basic Salary")
                         + AmountOrZero(calc.form, "Accommodation Allowance")
                         + AmountOrZero(calc.form, "Transportation Allowance")
                         + AmountOrZero(calc.form, "Monthly Fixed Allowance")
                         + AmountOrZero(calc.form, "Other Monthly Allowance"))

----------------------------------------------------------------------------
(* Claims about interview scheduling (Spec) *)

\* the step is interviews() carrying form f through to its writes
Saves(f) == interviews_save(f, TRUE, TRUE)

FirstRoundRows(cid) ==
    {i \in 1..Len(Interviews) :
        Interviews[i].cid = cid /\ Interviews[i].status \in FirstRound}

\* C3: in every reachable state each candidate has at most one Interviews
\* row whose status is First Interview or First Interview Completed.
C3_AtMostOneFirstRoundRow ==
    \A cid \in CandIds : Cardinality(FirstRoundRows(cid)) <= 1

\* C4: a save with the second-round flag appends exactly one row with status
\* Second Interview and leaves every existing row as it was.
C4_SecondRoundAppends ==
    [][\A f \in IvGoodForms :
          (f.second /\ Saves(f)) =>
              /\ Len(Interviews') = Len(Interviews) + 1
              /\ SubSeq(Interviews', 1, Len(Interviews)) = Interviews
              /\ Interviews'[Len(Interviews')].status = "Second Interview"
              /\ Interviews'[Len(Interviews')].cid = f.pick.cid]_vars

\* C4 witness: a Second Interview row sits behind the same candidate's
\* completed first-round row.
C4_Witness ==
    /\ Len(Interviews) = 2
    /\ Interviews[1].cid = Interviews[2].cid
    /\ Interviews[1].status = "First Interview Completed"
    /\ Interviews[2].status = "Second Interview"
    /\ ev = "success"

\* the frame with row idx moved from status `from` to `to`, if it is in `from`
Flipped(iv, idx, from, to) ==
    [i \in 1..Len(iv) |->
        IF i = idx + 1 /\ iv[i].status = from
        THEN [iv[i] EXCEPT !.status = to] ELSE iv[i]]

\* C5 as stated: each of the four routes moves row idx between its two
\* statuses and leaves rows in any other status and all other rows unchanged,
\* and done followed by undo on the same row restores the frame, whatever the
\* row's status was.
C5_DoneUndoAnyRow ==
    [][\A idx \in RowIdx :
          /\ interview_done_first(idx, TRUE) =>
                /\ Interviews' = Flipped(Interviews, idx, "First Interview",
                                         "First Interview Completed")
                /\ Flipped(Interviews', idx, "First Interview Completed",
                           "First Interview") = Interviews
          /\ interview_undo_first(idx, TRUE) =>
                Interviews' = Flipped(Interviews, idx, "First Interview Completed",
                                      "First Interview")
          /\ interview_done_second(idx, TRUE) =>
                /\ Interviews' = Flipped(Interviews, idx, "Second Interview",
                                         "Second Interview Completed")
                /\ Flipped(Interviews', idx, "Second Interview Completed",
                           "Second Interview") = Interviews
          /\ interview_undo_second(idx, TRUE) =>
                Interviews' = Flipped(Interviews, idx, "Second Interview Completed",
                                      "Second Interview")]_vars

\* row idx exists and is in status st
RowIn(idx, st) == idx < Len(Interviews) /\ Interviews[idx + 1].status = st

\* C5, amended: done_first / undo_first move a row between First Interview and
\* First Interview Completed, done_second / undo_second between Second
\* Interview and Second Interview Completed; a row in any other status and
\* every other row stay unchanged; and done followed by undo restores the
\* frame when the row was in the status done starts from (First Interview,
\* Second Interview) or in a status neither route touches.
C5_DoneUndoPerRow ==
    [][\A idx \in RowIdx :
          /\ interview_done_first(idx, TRUE) =>
                /\ Interviews' = Flipped(Interviews, idx, "First Interview",
                                         "First Interview Completed")
                /\ ~RowIn(idx, "First Interview Completed") =>
                      Flipped(Interviews', idx, "First Interview Completed",
                              "First Interview") = Interviews
          /\ interview_undo_first(idx, TRUE) =>
                Interviews' = Flipped(Interviews, idx, "First Interview Completed",
                                      "First Interview")
          /\ interview_done_second(idx, TRUE) =>
                /\ Interviews' = Flipped(Interviews, idx, "Second Interview",
                                         "Second Interview Completed")
                /\ ~RowIn(idx, "Second Interview Completed") =>
                      Flipped(Interviews', idx, "Second Interview Completed",
                              "Second Interview") = Interviews
          /\ interview_undo_second(idx, TRUE) =>
                Interviews' = Flipped(Interviews, idx, "Second Interview Completed",
                                      "Second Interview")]_vars

\* C5 witness: one candidate's first-round row is completed and the second
\* row, a second-round one, is completed too.
C5_Witness ==
    /\ Len(Interviews) = 2
    /\ Interviews[1].status = "First Interview Completed"
    /\ Interviews[2].status = "Second Interview Completed"

\* r is s without its leading and trailing white space
IsTrimOf(r, s) ==
    /\ \E i \in 0..Len(s) : \E j \in i..Len(s) :
          /\ r = SubSeq(s, i + 1, j)
          /\ \A k \in (1..i) \cup ((j + 1)..Len(s)) : IsSpace(s[k])
    /\ r # <<>> => ~IsSpace(r[1]) /\ ~IsSpace(r[Len(r)])

\* C6: the row a save writes holds the fixed address and no meeting link when
\* the mode is Onsite, and the trimmed submitted location and link otherwise.
C6_ModePolicy ==
    [][\A f \in IvGoodForms :
          Saves(f) =>
              \E i \in 1..Len(Interviews') :
                  /\ \A j \in 1..Len(Interviews) : j # i => Interviews'[j] = Interviews[j]
                  /\ Interviews'[i].cid = f.pick.cid
                  /\ Interviews'[i].mode = f.mode
                  /\ IF f.mode = "Onsite"
                     THEN /\ Interviews'[i].loc = OnsiteAddress
                          /\ Interviews'[i].link = <<>>
                     ELSE /\ IsTrimOf(Interviews'[i].loc, f.loc)
                          /\ IsTrimOf(Interviews'[i].link, f.link)]_vars

\* C6 witness: an Onsite row with the fixed address and no link next to an
\* Online row with the submitted room and link, trimmed.
C6_Witness ==
    /\ Len(Interviews) = 2
    /\ Interviews[1].mode = "Onsite"
    /\ Interviews[1].loc = OnsiteAddress /\ Interviews[1].link = <<>>
    /\ Interviews[2].mode = "Online"
    /\ Interviews[2].loc = Room /\ Interviews[2].link = Link

\* C8: after a save (first or second round) the candidate of the form, when
\* listed in Candidates, has status Interview whatever it had before, and no
\* other candidate row changes.
C8_SaveSetsInterview ==
    [][\A f \in IvGoodForms :
          Saves(f) =>
              /\ Len(Candidates') = Len(Candidates)
              /\ \A i \in 1..Len(Candidates) :
                    IF Candidates[i].cid = f.pick.cid
                    THEN Candidates'[i] = [Candidates[i] EXCEPT !.status = "Interview"]
                    ELSE Candidates'[i] = Candidates[i]]_vars

\* C8 witness: the second listed candidate was moved from Shortlist to
\* Interview by a save while the first one still has its Rejected status.
C8_Witness ==
    /\ HasCid(Interviews, C2id) /\ ~HasCid(Interviews, C1id)
    /\ Candidates[2].status = "Interview"
    /\ Candidates[1].status = "Rejected"

----------------------------------------------------------------------------
(* Claims about validation, candidate status and offers (SpecHR) *)

\* s is empty or white space only
Blank(s) == \A i \in 1..Len(s) : IsSpace(s[i])

\* forms with a candidate picked whose date or time is missing or does not parse
IvBadDateTime == {f \in IvBadForms : f.pick # NoPick}

AllInStatus(cd, cid, st) ==
    /\ HasCid(cd, cid)
    /\ \A i \in 1..Len(cd) : cd[i].cid = cid => cd[i].status = st

\* C9: the Candidates row an import or a screening save creates has status
\* Screening, and a screening save for a candidate already listed leaves that
\* candidate with status Screening whatever its status was.
C9_ScreeningAtCreationAndSave ==
    [][ev' = "success" =>
          \A caller \in Staff, newid \in CandIds :
              /\ \A file \in ImportFiles :
                    screening_import(caller, file, newid, TRUE, TRUE) =>
                        /\ Len(Candidates') = Len(Candidates) + 1
                        /\ Candidates'[Len(Candidates')].cid = newid
                        /\ Candidates'[Len(Candidates')].status = "Screening"
              /\ \A form \in SaveForms :
                    screening_save(caller, form, newid, TRUE, TRUE) =>
                        \E cid \in CandIds :
                            /\ form.cid # "" => cid = form.cid
                            /\ AllInStatus(Candidates', cid, "Screening")
                            /\ IF HasCid(Candidates, cid)
                               THEN Len(Candidates') = Len(Candidates)
                               ELSE /\ Len(Candidates') = Len(Candidates) + 1
                                    /\ Candidates'[Len(Candidates')].cid = cid]_vars

\* C9 witness: a candidate for whom an offer was generated is back in
\* Screening after a later screening save, next to a second candidate.
C9_Witness ==
    /\ HasCid(Offer_Details, C1id)
    /\ Len(Candidates) = 2
    /\ AllInStatus(Candidates, C1id, "Screening")

OfferRows(od, cid) == {i \in 1..Len(od) : od[i].cid = cid}

\* C10: after a successful offer generation the candidate's status is Offer
\* Issued and Offer_Details holds exactly one row with the candidate's id: the
\* first generation appends it, a later one rewrites it where it is; no
\* candidate id ever has more than one offer row.
C10_OneOfferRecord ==
    [][/\ \A cid \in CandIds : Cardinality(OfferRows(Offer_Details', cid)) <= 1
       /\ ev' = "success" =>
             \A caller \in Staff, form \in OfferForms, tpls \in TplSets :
                 offer_generate(caller, form, tpls, TRUE, TRUE) =>
                     LET cid == form.selected.cid
                     IN  /\ \A i \in 1..Len(Candidates') :
                               Candidates'[i].cid = cid =>
                                   Candidates'[i].status = "Offer Issued"
                         /\ Cardinality(OfferRows(Offer_Details', cid)) = 1
                         /\ IF HasCid(Offer_Details, cid)
                            THEN /\ Len(Offer_Details') = Len(Offer_Details)
                                 /\ OfferRows(Offer_Details', cid)
                                        = OfferRows(Offer_Details, cid)
                            ELSE /\ Len(Offer_Details') = Len(Offer_Details) + 1
                                 /\ Offer_Details'[Len(Offer_Details')].cid = cid
                         /\ \A i \in 1..Len(Offer_Details) :
                               Offer_Details[i].cid # cid =>
                                   Offer_Details'[i] = Offer_Details[i]]_vars

\* C10 witness: two candidates hold one offer row each, the first row
\* rewritten by a later generation with another salary, and the first
\* candidate is in Offer Issued.
C10_Witness ==
    /\ Len(Offer_Details) = 2
    /\ Offer_Details[1].cid = C1id /\ Offer_Details[1].basic = Salary6000
    /\ Offer_Details[2].cid = C2id /\ Offer_Details[2].basic = Salary5000
    /\ AllInStatus(Candidates, C1id, "Offer Issued")

----------------------------------------------------------------------------
(* Claims about the candidate register (SpecCand) *)

\* C11: the status of every Candidates row is always one of the ten values
\* of CAND_STATUS; a submitted value outside the enumeration is not stored.
C11_StatusInEnumeration ==
    \A i \in 1..Len(Candidates) : Candidates[i].status \in CAND_STATUS

\* the rows of Candidates whose Candidate ID is cid
CandRows(cid) == {i \in 1..Len(Candidates) : Candidates[i].cid = cid}

\* C12: in every state reached by imports, screening saves, status and comment
\* edits and deletes, Candidates holds at most one row per candidate id.
C12_OneRowPerId ==
    \A cid \in CandIds : Cardinality(CandRows(cid)) <= 1

----------------------------------------------------------------------------
(* Claims about the deletes (SpecDelete) *)

\* no row of cid is left in any of the five tables
NoRowsOf(cid) ==
    /\ ~HasCid(Candidates', cid) /\ ~HasCid(Screening_Form', cid)
    /\ ~HasCid(Interviews', cid) /\ ~HasCid(Shortlist_Request', cid)
    /\ ~HasCid(Offer_Details', cid)

\* the rows of every other candidate are as before
OthersKept(cid) ==
    /\ DropCid(Candidates', cid) = DropCid(Candidates, cid)
    /\ DropCid(Screening_Form', cid) = DropCid(Screening_Form, cid)
    /\ DropCid(Interviews', cid) = DropCid(Interviews, cid)
    /\ DropCid(Shortlist_Request', cid) = DropCid(Shortlist_Request, cid)
    /\ DropCid(Offer_Details', cid) = DropCid(Offer_Details, cid)

\* C13: after a delete of a candidate id by the candidates delete route or by
\* the screening delete route, no row with that id remains in Candidates,
\* Screening_Form, Interviews, Shortlist_Request or Offer_Details, and the
\* rows of every other candidate are unchanged.
C13_DeleteRemovesEveryRow ==
    [][\A cid \in CandIds, caller \in Staff :
          (\/ candidate_delete_all(caller, cid, AllWritten)
           \/ screening_delete(caller, cid, TRUE, TRUE))
          => (NoRowsOf(cid) /\ OthersKept(cid))]_vars

----------------------------------------------------------------------------
(* Claims about failed sheet writes (SpecCandFault) *)

ScreeningRows(cid) == {i \in 1..Len(Screening_Form) : Screening_Form[i].cid = cid}

\* C14: in every reachable state, also after a failed sheet write, a candidate
\* id has a Screening_Form record exactly when it has a Candidates row, and it
\* has at most one Screening_Form record.
C14_ScreeningOneToOne ==
    \A cid \in CandIds :
        /\ HasCid(Screening_Form, cid) <=> HasCid(Candidates, cid)
        /\ Cardinality(ScreeningRows(cid)) <= 1

----------------------------------------------------------------------------
(* Claims about the checklists (SpecShortlist) *)

\* C15: under checklist saves (also with the add-item field, or with two rows
\* of the same name), item deletes and attachment removals, Shortlist_Request
\* holds at most one row per candidate id and item name.
C15_OneRowPerItem ==
    \A i \in 1..Len(Shortlist_Request) : \A j \in 1..Len(Shortlist_Request) :
        (/\ Shortlist_Request[i].cid = Shortlist_Request[j].cid
         /\ Shortlist_Request[i].item = Shortlist_Request[j].item) => i = j

\* the rows of candidate cid in the checklist sheet sl
ItemsOf(sl, cid) == SelectSeq(sl, LAMBDA r : r.cid = cid)

\* the page rows a save stores: those whose name is not blank
Named(form) == SelectSeq(form.items, LAMBDA e : Strip(e.item) # <<>>)

\* a checklist save of form for cid went through
SlSaved(cid, form) ==
    /\ ev' = "success"
    /\ \E caller \in Staff : shortlist_save(caller, cid, form, TRUE)

\* the folder path of the file "my cv.pdf" uploaded for the first candidate
PathCV1 ==
    <<[safe |-> <<"J","o","_","D">>, cid |-> C1id], "Attachments",
      <<"m","y","_","c","v",".","p","d","f">>>>

ItemNames(rs) == [k \in 1..Len(rs) |-> rs[k].item]

\* the item names a page submits: its non-blank names, then the add-item field
Submitted(form) ==
    [k \in 1..Len(Named(form)) |-> Strip(Named(form)[k].item)]
    \o (IF Strip(form.new_item) # <<>> THEN <<Strip(form.new_item)>> ELSE <<>>)

\* the checklist rows of the candidates other than cid are as before
OtherItemsKept(cid) ==
    DropCid(Shortlist_Request', cid) = DropCid(Shortlist_Request, cid)

\* C17 as stated: after every checklist save for a candidate, whatever the
\* submitted set contains, the candidate's rows are exactly the submitted
\* items and the rows of every other candidate are unchanged.
C17_SaveReplacesAnySet ==
    [][\A cid \in CandIds : \A form \in SlFormsOf(cid) :
          (\E caller \in Staff : shortlist_save(caller, cid, form, TRUE)) =>
              /\ ItemNames(ItemsOf(Shortlist_Request', cid)) = Submitted(form)
              /\ OtherItemsKept(cid)]_vars

\* C17: a checklist save that submits at least one named item leaves exactly
\* the submitted items as the candidate's rows, the previous set discarded;
\* a save that submits none is refused and changes no table; either way the
\* rows of every other candidate are unchanged.
C17_SaveReplacesItemSet ==
    [][\A cid \in CandIds : \A form \in SlFormsOf(cid) :
          (\E caller \in Staff : shortlist_save(caller, cid, form, TRUE)) =>
              /\ OtherItemsKept(cid)
              /\ IF Submitted(form) # <<>>
                 THEN /\ ev' = "success"
                      /\ ItemNames(ItemsOf(Shortlist_Request', cid)) = Submitted(form)
                 ELSE /\ ev' = "error"
                      /\ UNCHANGED sheets]_vars

\* the first candidate's set is ID and CV, the CV row carrying the file of
\* the set it replaced, beside the second candidate's row
C17_Witness ==
    /\ ItemNames(ItemsOf(Shortlist_Request, C1id)) = <<ItemID, ItemCV>>
    /\ ItemsOf(Shortlist_Request, C1id)[2].path = PathCV1
    /\ ItemsOf(Shortlist_Request, C2id) # <<>>

----------------------------------------------------------------------------
(* Claims about the sheet writer (SpecWriteFair) *)

\* what the attempts of the running or returned call met, oldest first
Met == IF calc.pc = "idle" THEN <<>> ELSE calc.met

\* C18: _excel_write makes at most three attempts; it returns True at the
\* first attempt that succeeds; it tries again only after a lock error; it
\* returns False after the third locked attempt and at once after any other
\* error; and every call returns.
C18_WriteAttempts ==
    /\ [](/\ Len(Met) <= 3
          /\ \A k \in 1..(Len(Met) - 1) : Met[k] = "PermissionError"
          /\ calc.pc = "try" => Len(Met) < 3
          /\ calc.pc = "return" =>
                /\ Met # <<>>
                /\ calc.result = "True" <=> Met[Len(Met)] = "ok"
                /\ calc.result = "False" <=>
                      \/ Met[Len(Met)] = "Exception"
                      \/ Met = <<"PermissionError", "PermissionError", "PermissionError">>
                /\ calc.result \in {"True", "False"}
          /\ calc.pc \in {"try", "sleep"} => calc.result = "none")
    /\ (Running ~> calc.pc = "return")

\* a call that returned False after three locked attempts
C18_Witness ==
    /\ calc.pc = "return"
    /\ calc.result = "False"
    /\ calc.met = <<"PermissionError", "PermissionError", "PermissionError">>

\* the outcome the claim asks of an operation one of whose writes failed
FailureReported == ev' = "error" /\ UNCHANGED sheets

\* the outcomes of two writes of which at least one fails
SomeFailed == {w \in BOOLEAN \X BOOLEAN : ~(w[1] /\ w[2])}

\* C19: when a sheet write fails after its retries, the operation that issued
\* it (here status edit, comment, import, screening save) reports a failure
\* and leaves the stored tables as they were.
C19_FailedWriteReported ==
    [][\A caller \in Staff, cid \in CandIds :
          /\ (HasCid(Candidates, cid)
                /\ candidate_meta_save(caller, cid, "Rejected", FALSE))
             => FailureReported
          /\ (HasCid(Candidates, cid)
                /\ \E user \in Users : candidate_comment(caller, user, cid, CommentText, FALSE))
             => FailureReported
          /\ (\E w \in SomeFailed : screening_import(caller, CandFile, cid, w[1], w[2]))
             => FailureReported
          /\ (\E w \in SomeFailed : \E form \in CandForms :
                 screening_save(caller, form, cid, w[1], w[2]))
             => FailureReported]_vars

----------------------------------------------------------------------------
(* Claims about access to the interview routes (Spec) *)

\* a request to one of the eight interview operations made by caller; the
\* four done/undo routes of a round never ask who calls
InterviewRequestBy(caller) ==
    \/ \E f \in IvFormsOf(caller) : interviews(caller, f, TRUE, TRUE)
    \/ \E idx \in RowIdx :
          \/ interview_delete(caller, idx, TRUE)
          \/ interview_done_first(idx, TRUE)
          \/ interview_undo_first(idx, TRUE)
          \/ interview_done_second(idx, TRUE)
          \/ interview_undo_second(idx, TRUE)
          \/ interview_done(caller, idx, TRUE)
          \/ interview_undo(caller, idx, TRUE)

\* C20: a request to any interview operation by a requestor or by a caller
\* who is not signed in is an access error and leaves every table unchanged.
C20_OnlyStaffChangeInterviews ==
    [][\A caller \in Callers \ Staff :
          InterviewRequestBy(caller) => (ev' = "error" /\ UNCHANGED sheets)]_vars

----------------------------------------------------------------------------
(* Claims about the requestor's comment (SpecCand) *)

\* row i of Candidates is as before, or differs in its comment fields only
OnlyCommentChanged(i) ==
    Candidates'[i] = [Candidates[i] EXCEPT !.comment = Candidates'[i].comment]

\* C21: a requestor's comment changes data only for a candidate whose
\* Requestor Username is the requestor's own username, and there only the
\* comment fields; for any other candidate it writes nothing.
C21_RequestorCommentsOwnOnly ==
    [][\A user \in Users, cid \in CandIds :
          candidate_comment("requestor", user, cid, CommentText, TRUE) =>
              /\ UNCHANGED <<Screening_Form, Interviews, Offer_Details, Shortlist_Request>>
              /\ Len(Candidates') = Len(Candidates)
              /\ \A i \in 1..Len(Candidates) :
                    /\ OnlyCommentChanged(i)
                    /\ Candidates'[i] # Candidates[i] =>
                          /\ Candidates[i].cid = cid
                          /\ Candidates[i].req = user]_vars

----------------------------------------------------------------------------
(* Claims about requests handled at the same time (SpecRace) *)

\* the place of the event <<p, step>> in the log, 0 when it has not happened
At(p, step) ==
    IF \E k \in 1..Len(calc.log) : calc.log[k] = <<p, step>>
    THEN CHOOSE k \in 1..Len(calc.log) : calc.log[k] = <<p, step>>
    ELSE 0

\* request a read before request b wrote, and wrote after it
Straddles(a, b) ==
    /\ At(a, "write") > 0 /\ At(b, "write") > 0
    /\ At(a, "read") < At(b, "write")
    /\ At(b, "write") < At(a, "write")

\* the value request b wrote is in none of the rows it addressed
ChangeLost(b) ==
    \A i \in 1..Len(Candidates) :
        Candidates[i].cid = calc.req[b].op.cid
            => Candidates[i][calc.req[b].op.col] # calc.req[b].op.val

\* C22: when request A reads the Candidates sheet before request B writes it
\* and writes after B, the sheet holds A's copy with A's change alone: B's
\* change is gone unless A made the same one, and both reported success.
C22_LostUpdate ==
    \A a \in Reqs, b \in Reqs :
        (a # b /\ Straddles(a, b)) =>
            /\ calc.req[a].result = "success" /\ calc.req[b].result = "success"
            /\ Candidates = WriteBack(Candidates, calc.req[a].local, calc.req[a].op)
            /\ calc.req[b].op # calc.req[a].op => ChangeLost(b)

\* A rejected one candidate while B commented on the other, and the comment
\* is not in the sheet although B was told it was sent
C22_Witness ==
    /\ Straddles("A", "B")
    /\ calc.req["A"].op.col = "status" /\ calc.req["B"].op.col = "comment"
    /\ calc.req["A"].op.cid # calc.req["B"].op.cid
    /\ calc.req["B"].result = "success"
    /\ ChangeLost("B")

----------------------------------------------------------------------------
(* Claims about folder names (SpecFolder) *)

\* the letters, digits, spaces, underscores and hyphens of a name, in order
KeptChars(name) ==
    SelectSeq(name, LAMBDA c : c \in {"a", "Z", "7", " ", "_", "-"})

\* s with "_" in the place of every space
Underscored(s) == [i \in 1..Len(s) |-> IF s[i] = " " THEN "_" ELSE s[i]]

\* C23 as stated: the folder part is the kept characters of the name with
\* every space replaced by an underscore, it holds only letters, digits,
\* underscores and hyphens, and a second call returns the same.
C23_EverySpaceReplaced ==
    calc.fn = "candidate_root" =>
        /\ calc.out.safe = Underscored(KeptChars(calc.name))
        /\ calc.out.cid = calc.cid
        /\ \A i \in 1..Len(calc.out.safe) : calc.out.safe[i] \in {"a", "Z", "7", "_", "-"}
        /\ calc.again = calc.out

\* C23: the folder part is the kept characters of the name with the spaces
\* at either end removed and every space that is left replaced by an
\* underscore; it holds only letters, digits, underscores and hyphens; the
\* id follows it; and a second call returns the same.
C23_InnerSpacesReplaced ==
    calc.fn = "candidate_root" =>
        /\ LET kept == KeptChars(calc.name)
           IN  \E i \in 0..Len(kept) : \E j \in i..Len(kept) :
                  /\ \A k \in (1..i) \cup ((j + 1)..Len(kept)) : kept[k] = " "
                  /\ i < j => (kept[i + 1] # " " /\ kept[j] # " ")
                  /\ calc.out.safe = Underscored(SubSeq(kept, i + 1, j))
        /\ calc.out.cid = calc.cid
        /\ \A i \in 1..Len(calc.out.safe) : calc.out.safe[i] \in {"a", "Z", "7", "_", "-"}
        /\ calc.again = calc.out

\* the name " a." gives the folder part "a": the dot dropped and the leading
\* space removed, not replaced
C23_Witness ==
    /\ calc.fn = "candidate_root"
    /\ calc.name = <<" ", "a", ".">>
    /\ calc.out.safe = <<"a">>

----------------------------------------------------------------------------
(* The choice fields of the screening form, saved and loaded again:
   `SpecChoice` *)

_norm(v) == Strip(v)

\* the cells pandas reads as missing (its default NA strings)
NA_VALUES ==
  {<<>>,
   <<"#","N","/","A">>,
   <<"N","/","A">>,
   <<"N","A">>,
   <<"N","U","L","L">>,
   <<"N","a","N">>,
   <<"n","/","a">>,
   <<"n","a","n">>,
   <<"n","u","l","l">>,
   <<"<","N","A",">">>}

NaNCell == <<"NaN">>

\* the value of a cell of the first row, as _excel_read returns it
_excel_read_cell(v) == IF v \in NA_VALUES THEN NaNCell ELSE v

ChoiceFields ==
  {[col |-> "Highest Education", allowed |-> EDUCATION],
   [col |-> "Marital Status", allowed |-> MARITAL],
   [col |-> "Iqama Status", allowed |-> IQAMA],
   [col |-> "Notice Period", allowed |-> NOTICE],
   [col |-> "Ever Interviewed", allowed |-> YESNO]}

ChoiceInputs ==
  {<<>>,
   <<" ","p","h","d"," ">>,
   <<"M","A","S","T","E","R","'","S"," ","D","E","G","R","E","E">>,
   <<"m","a","r","r","i","e","d">>,
   <<"n","/","a">>,
   <<"N","/","A">>,
   <<"n","/","a"," ","(","s","a","u","d","i"," ","n","a","t","i","o","n","a","l",")">>,
   <<"2","w">>,
   <<"1"," ","W","E","E","K">>,
   <<"y","e","s">>,
   <<"T","R","U","E">>,
   <<"n","o","n","e">>,
   <<" ","x"," ","y"," ">>,
   <<"O","t","h","e","r">>}

InitChoice ==
    /\ Screening_Form = <<>> /\ Candidates = <<>> /\ Interviews = <<>>
    /\ Offer_Details = <<>> /\ Shortlist_Request = <<>>
    /\ dirs = {} /\ ev = NoEv
    /\ \E f \in ChoiceFields, v \in ChoiceInputs :
          calc = [fn |-> "form", col |-> f.col, allowed |-> f.allowed, val |-> v,
                  cell |-> <<>>, again |-> <<>>, got |-> <<>>]

\* screening_save: the field of the row it writes
ChoiceSave ==
    /\ calc.fn = "form"
    /\ LET stored == normalize_choice(_norm(calc.val), calc.allowed)
       IN  calc' = [calc EXCEPT !.fn = "screening_save", !.cell = stored,
                                !.again = normalize_choice(stored, calc.allowed)]
    /\ UNCHANGED <<sheets, dirs, ev>>

\* screening_load: the field of the row it renders
ChoiceLoad ==
    /\ calc.fn = "screening_save"
    /\ calc' = [calc EXCEPT !.fn = "screening_load", !.got = _excel_read_cell(calc.cell)]
    /\ UNCHANGED <<sheets, dirs, ev>>

NextChoice == ChoiceSave \/ ChoiceLoad

SpecChoice == InitChoice /\ [][NextChoice]_vars

----------------------------------------------------------------------------
(* Claims about the choice fields (SpecChoice) *)

\* the label of the list that v names, case-insensitively, if any
LabelOf(v, allowed) ==
    {allowed[i] : i \in {j \in 1..Len(allowed) : ToLower(Strip(v)) = ToLower(allowed[j])}}

\* the label that v names through a listed alias, if any
AliasOf(v, allowed) ==
    LET low == ToLower(Strip(v))
    IN  IF allowed = YESNO
        THEN (IF low \in {<<"y">>, <<"t","r","u","e">>, <<"1">>} THEN {Yes} ELSE {})
             \cup (IF low \in {<<"n">>, <<"f","a","l","s","e">>, <<"0">>, <<>>,
                               <<"n","o","n","e">>} THEN {No} ELSE {})
        ELSE IF allowed = NOTICE
        THEN {m[2] : m \in {n \in mapv : n[1] = low}}
        ELSE {}

\* the value the field is said to hold for the input v
Normalized(v, allowed) ==
    IF LabelOf(v, allowed) # {} THEN LabelOf(v, allowed)
    ELSE IF AliasOf(v, allowed) # {} THEN AliasOf(v, allowed)
    ELSE {Strip(v)}

\* C24: a screening load after a screening save returns, for each choice
\* field, the canonical label when the submitted value matches one
\* case-insensitively or by a listed alias and the trimmed submitted value
\* otherwise; normalising the saved value again changes nothing.
C24_SaveLoadReturnsNormalized ==
    calc.fn = "screening_load" =>
        /\ calc.got \in Normalized(calc.val, calc.allowed)
        /\ calc.again = calc.cell

\* the part of C24 that is about screening_save alone: the value written
C24_SavedIsNormalized ==
    calc.fn \in {"screening_save", "screening_load"} =>
        /\ calc.cell \in Normalized(calc.val, calc.allowed)
        /\ calc.again = calc.cell

\* the Iqama status N/A, picked from the list, has been saved and loaded
C24_Lost ==
    /\ calc.fn = "screening_load"
    /\ calc.col = "Iqama Status" /\ calc.val = <<"N","/","A">>
    /\ calc.cell = <<"N","/","A">> /\ calc.got = NaNCell

\* C25: a save without the second-round flag updates in place exactly the
\* candidate's first-round row, the row count unchanged, when the candidate
\* has one; when the candidate has none (second-round rows or no rows) it
\* appends a row with status First Interview and modifies no existing row.
C25_FirstRoundSaveKeepsSecondRound ==
    [][\A f \in IvGoodForms :
          (~f.second /\ Saves(f)) =>
              IF FirstRoundRows(f.pick.cid) # {}
              THEN /\ Len(Interviews') = Len(Interviews)
                   /\ \E i \in FirstRoundRows(f.pick.cid) :
                         /\ Interviews'[i].status = "First Interview"
                         /\ \A j \in (1..Len(Interviews)) \ {i} :
                               Interviews'[j] = Interviews[j]
              ELSE /\ Len(Interviews') = Len(Interviews) + 1
                   /\ SubSeq(Interviews', 1, Len(Interviews)) = Interviews
                   /\ Interviews'[Len(Interviews')].status = "First Interview"
                   /\ Interviews'[Len(Interviews')].cid = f.pick.cid]_vars

----------------------------------------------------------------------------
(* The government-ID value as screening_save and screening_import store it:
   `SpecGovId` *)

MaxGid == 4

GidChars == {"7", ".", "0", " "}

GovIds == UNION {[1..n -> GidChars] : n \in 0..MaxGid}

\* s.replace(".0", "")
RECURSIVE RemoveDotZero(_)
RemoveDotZero(s) ==
    IF Len(s) < 2 THEN s
    ELSE IF s[1] = "." /\ s[2] = "0" THEN RemoveDotZero(SubSeq(s, 3, Len(s)))
    ELSE <<s[1]>> \o RemoveDotZero(Tail(s))

\* str(gid).strip().replace(".0", "")
clean_gid(gid) == RemoveDotZero(Strip(gid))

InitGovId ==
    /\ Screening_Form = <<>> /\ Candidates = <<>> /\ Interviews = <<>>
    /\ Offer_Details = <<>> /\ Shortlist_Request = <<>>
    /\ dirs = {} /\ ev = NoEv
    /\ \E gid \in GovIds : calc = [fn |-> "form", gid |-> gid, sf |-> <<>>, cd |-> <<>>]

\* screening_save: the value in the Screening_Form row and in the Candidates row
GovIdSave ==
    /\ calc.fn = "form"
    /\ calc' = [calc EXCEPT !.fn = "screening_save",
                            !.sf = clean_gid(_norm(calc.gid)),
                            !.cd = clean_gid(clean_gid(_norm(calc.gid)))]
    /\ UNCHANGED <<sheets, dirs, ev>>

\* screening_import: the value in the Screening_Form row
GovIdImport ==
    /\ calc.fn = "form"
    /\ calc' = [calc EXCEPT !.fn = "screening_import", !.sf = clean_gid(calc.gid)]
    /\ UNCHANGED <<sheets, dirs, ev>>

NextGovId == GovIdSave \/ GovIdImport

SpecGovId == InitGovId /\ [][NextGovId]_vars

----------------------------------------------------------------------------
(* Claims about the government ID (SpecGovId) *)

EndsDotZero(s) == Len(s) >= 2 /\ s[Len(s) - 1] = "." /\ s[Len(s)] = "0"

\* s without a trailing ".0"
TrailingRemoved(s) == IF EndsDotZero(s) THEN SubSeq(s, 1, Len(s) - 2) ELSE s

\* C26: the government ID stored by screening save and by import is the
\* submitted value trimmed, with a trailing ".0" removed; a value that does
\* not end in ".0" is stored as trimmed, and no stored value ends in ".0".
C26_GovIdTrailingOnly ==
    calc.fn \in {"screening_save", "screening_import"} =>
        /\ calc.sf = TrailingRemoved(Strip(calc.gid))
        /\ ~EndsDotZero(calc.sf)

\* what holds of the stored value: it is the trimmed value with every ".0"
\* taken out in one pass from the left
C26_GovIdEveryDotZero ==
    calc.fn \in {"screening_save", "screening_import"} =>
        /\ calc.sf = RemoveDotZero(Strip(calc.gid))
        /\ (\A i \in 1..(Len(Strip(calc.gid)) - 1) :
               ~(Strip(calc.gid)[i] = "." /\ Strip(calc.gid)[i + 1] = "0"))
           => calc.sf = Strip(calc.gid)

----------------------------------------------------------------------------
(* A caller who took a row's index from the interviews page, and the
   requests handled before the caller's own: `SpecIndex` *)

IxRows == 3

\* the forms whose rows fill the sheet, one per (candidate, mode)
IxForms ==
    <<IvForm([name |-> Name1, cid |-> C1id], DateGood, TimeGood, [mode |-> "Onsite", loc |-> Room, link |-> Link], FALSE),
      IvForm([name |-> Name2, cid |-> C2id], DateGood, TimeGood, [mode |-> "Online", loc |-> Room, link |-> Link], FALSE),
      IvForm([name |-> Name1, cid |-> C1id], DateGood, TimeGood, [mode |-> "Online", loc |-> Room, link |-> Link], FALSE),
      IvForm([name |-> Name2, cid |-> C2id], DateGood, TimeGood, [mode |-> "Onsite", loc |-> Room, link |-> Link], FALSE)>>

\* the cells of a row that no index route writes
RowKey(r) == [r EXCEPT !.status = ""]

InitIndex ==
    /\ \E s1 \in InitStatus, s2 \in {"Shortlist"} :
          Candidates = <<[cid |-> C1id, name |-> Name1, role |-> Job, status |-> s1,
                          req |-> "", comment |-> ""],
                         [cid |-> C2id, name |-> Name2, role |-> Job, status |-> s2,
                          req |-> "", comment |-> ""]>>
    /\ Screening_Form = <<[cid |-> C1id, name |-> Name1, role |-> Job],
                          [cid |-> C2id, name |-> Name2, role |-> Job]>>
    /\ \E second \in [1..IxRows -> BOOLEAN] :
          Interviews = [i \in 1..IxRows |->
                           interviews_new_row([IxForms[i] EXCEPT !.second = second[i]])]
    /\ Offer_Details = <<>>
    /\ Shortlist_Request = <<>>
    /\ dirs = {candidate_root(Name1, C1id)}
    /\ ev = NoEv
    /\ calc = NoCalc

IxIdx == 0..(IxRows - 1)

\* GET /interviews: the caller reads the table and keeps loop.index0 of a row
IxView ==
    \E idx \in IxIdx :
        /\ calc = NoCalc
        /\ idx < Len(Interviews)
        /\ calc' = [fn |-> "interviews", idx |-> idx, row |-> RowKey(Interviews[idx + 1])]
        /\ UNCHANGED <<sheets, dirs, ev>>

IxDelete == \E caller \in Callers, idx \in IxIdx : interview_delete(caller, idx, TRUE)

IxDoneFirst == \E idx \in IxIdx : interview_done_first(idx, TRUE)

IxUndoFirst == \E idx \in IxIdx : interview_undo_first(idx, TRUE)

IxDone == \E caller \in Callers, idx \in IxIdx : interview_done(caller, idx, TRUE)

IxUndo == \E caller \in Callers, idx \in IxIdx : interview_undo(caller, idx, TRUE)

NextIndex == IxView \/ IxDelete \/ IxDoneFirst \/ IxUndoFirst \/ IxDone \/ IxUndo

SpecIndex == InitIndex /\ [][NextIndex]_vars

----------------------------------------------------------------------------
(* Claims about the row index of the interview routes (SpecIndex) *)

\* the position the caller's row has now, 0 when the row is gone
TargetPos ==
    IF \E i \in 1..Len(Interviews) : RowKey(Interviews[i]) = calc.row
    THEN CHOOSE i \in 1..Len(Interviews) : RowKey(Interviews[i]) = calc.row
    ELSE 0

\* a lower-indexed row was deleted after the caller took the index: the
\* caller's row now sits below the index the caller holds
Shifted == calc.fn = "interviews" /\ TargetPos > 0 /\ TargetPos < calc.idx + 1

\* the caller's done, undo or delete request with the index taken earlier
StaleRequest(caller) ==
    \/ interview_delete(caller, calc.idx, TRUE)
    \/ interview_done_first(calc.idx, TRUE)
    \/ interview_undo_first(calc.idx, TRUE)
    \/ interview_done(caller, calc.idx, TRUE)
    \/ interview_undo(caller, calc.idx, TRUE)

\* every row but the one at 0-based position idx is in the new frame as it was
OtherRowsKept(idx) ==
    \A i \in (1..Len(Interviews)) \ {idx + 1} :
        \E j \in 1..Len(Interviews') : Interviews'[j] = Interviews[i]

\* C27 as stated: after another request deleted a lower-indexed row, the
\* caller's done, undo or delete request is applied to a row, and that row
\* is not the one the caller targeted.
C27_StaleIndexHitsAnotherRow ==
    [][Shifted =>
          \A caller \in Staff :
              StaleRequest(caller) =>
                  /\ calc.idx < Len(Interviews)
                  /\ RowKey(Interviews[calc.idx + 1]) # calc.row]_vars

\* C27, amended: after another request deleted a lower-indexed row, the
\* caller's request never touches the targeted row; it addresses the row
\* now at the index, a different row, and changes no other row; when no row
\* is at the index any more the request is refused and changes nothing.
C27_StaleIndexMissesTarget ==
    [][Shifted =>
          \A caller \in Staff :
              StaleRequest(caller) =>
                  IF calc.idx < Len(Interviews)
                  THEN /\ RowKey(Interviews[calc.idx + 1]) # calc.row
                       /\ OtherRowsKept(calc.idx)
                       /\ interview_delete(caller, calc.idx, TRUE) =>
                             /\ Len(Interviews') = Len(Interviews) - 1
                             /\ \A j \in 1..Len(Interviews') :
                                   RowKey(Interviews'[j]) # RowKey(Interviews[calc.idx + 1])
                       /\ interview_done(caller, calc.idx, TRUE) =>
                             Interviews'[calc.idx + 1].status = "Second Interview"
                       /\ interview_undo(caller, calc.idx, TRUE) =>
                             Interviews'[calc.idx + 1].status = "First Interview"
                  ELSE /\ Interviews' = Interviews
                       /\ ev' = "error"]_vars

\* C27 witness: the caller took index 1 for the second row; the first row
\* was deleted, and the request with index 1 marked the other candidate's
\* row that had moved to the index.
C27_Witness ==
    /\ calc.fn = "interviews" /\ calc.idx = 1
    /\ Len(Interviews) = 2
    /\ RowKey(Interviews[1]) = calc.row
    /\ Interviews[1].cid = C2id /\ Interviews[2].cid = C1id
    /\ Interviews[1].status = "First Interview"
    /\ Interviews[2].status = "First Interview Completed"
    /\ ev = "success"

----------------------------------------------------------------------------
(* Claims about offers and candidate folders (SpecHR) *)

\* the candidate's folder is missing or the selected template file is
GenerationFails(form, tpls) ==
    \/ candidate_root(Strip(form.selected.name), form.selected.cid) \notin dirs
    \/ template_file(StripAll(form.payload)) \notin tpls

\* C28: when the candidate's folder does not exist or the selected template
\* file is missing, offer_generate leaves the Offer table and the Candidates
\* table as they were and flashes an error: a step that does otherwise is no
\* such request.
C28_FailedGenerationWritesNothing ==
    [][\/ /\ Offer_Details' = Offer_Details
          /\ Candidates' = Candidates
          /\ ev' = "error"
       \/ \A caller \in Staff, tpls \in TplSets, form \in OfferForms :
             ~(/\ form.selected # NoPick
               /\ GenerationFails(form, tpls)
               /\ offer_generate(caller, form, tpls, TRUE, TRUE))]_vars

\* C28 witness: a listed candidate without a folder, no offer row and the
\* error flash of the refused generation.
C28_Witness ==
    /\ \E i \in 1..Len(Candidates) :
          /\ candidate_root(Candidates[i].name, Candidates[i].cid) \notin dirs
          /\ Candidates[i].status = "Screening"
    /\ Offer_Details = <<>>
    /\ ev = "error"

\* C29: every candidate listed in Candidates has an existing candidate
\* folder, whether a screening save or an import created it (so that offer
\* generation never fails for want of the folder).
C29_EveryCandidateHasFolder ==
    \A i \in 1..Len(Candidates) :
        candidate_root(Candidates[i].name, Candidates[i].cid) \in dirs

\* the same, for the candidates a screening save created or updated last
C29_SavedCandidateHasFolder ==
    [][\A caller \in Staff, form \in SaveForms, newid \in CandIds :
          (screening_save(caller, form, newid, TRUE, TRUE) /\ ev' = "success")
          => \E i \in 1..Len(Candidates') :
                /\ Candidates'[i].name = Strip(form.name)
                /\ candidate_root(Candidates'[i].name, Candidates'[i].cid) \in dirs']_vars

\* the positions of the Candidates rows whose trimmed name is `name`
RowsNamed(name) == {i \in 1..Len(Candidates) : Strip(Candidates[i].name) = name}

\* the id a save of `form` is said to target; newid is the generated id
SaveTarget(form, newid) ==
    IF form.cid # "" THEN form.cid
    ELSE IF RowsNamed(Strip(form.name)) # {}
    THEN Candidates[CHOOSE i \in RowsNamed(Strip(form.name)) :
                        \A j \in RowsNamed(Strip(form.name)) : i <= j].cid
    ELSE newid

\* rows' is rows with the rows of id `target` rewritten and no other change,
\* or, when `target` is not in rows, rows with one row of that id appended
WrittenTo(rows, rowsNext, target, name) ==
    IF HasCid(rows, target)
    THEN /\ Len(rowsNext) = Len(rows)
         /\ \A i \in 1..Len(rows) :
               IF rows[i].cid = target
               THEN rowsNext[i].cid = target /\ rowsNext[i].name = name
               ELSE rowsNext[i] = rows[i]
    ELSE /\ Len(rowsNext) = Len(rows) + 1
         /\ SubSeq(rowsNext, 1, Len(rows)) = rows
         /\ rowsNext[Len(rowsNext)].cid = target
         /\ rowsNext[Len(rowsNext)].name = name

\* C30: a screening save without a candidate id targets the id of the first
\* Candidates row whose trimmed name is the submitted name and rewrites that
\* candidate's Screening and Candidates rows, adding none; when no row has
\* the name it targets the generated id and, that id being new, appends the
\* candidate; a save with a candidate id targets that id.
C30_SaveResolvesTarget ==
    [][\A caller \in Staff, form \in SaveForms, newid \in CandIds :
          (/\ ev' = "success"
           /\ Strip(form.name) # <<>> /\ Strip(form.role) # <<>>
           /\ screening_save(caller, form, newid, TRUE, TRUE))
          => /\ WrittenTo(Candidates, Candidates', SaveTarget(form, newid),
                          Strip(form.name))
             /\ WrittenTo(Screening_Form, Screening_Form', SaveTarget(form, newid),
                          Strip(form.name))
             /\ (form.cid = "" /\ RowsNamed(Strip(form.name)) # {})
                => /\ Len(Candidates') = Len(Candidates)
                   /\ Len(Screening_Form') = Len(Screening_Form)
             /\ form.cid # "" => HasCid(Candidates', form.cid)]_vars

\* C30 witness: the one candidate has the id no form carries, an offer on
\* file and is back in Screening: the save that put it back came without an
\* id and found the candidate by name.
C30_Witness ==
    /\ Len(Candidates) = 1 /\ Len(Screening_Form) = 1
    /\ Candidates[1].cid = C2id /\ Candidates[1].name = Name1
    /\ Candidates[1].status = "Screening"
    /\ HasCid(Offer_Details, C2id)
    /\ ev = "success"

====
